---- MODULE Spec2Model ----
(***************************************************************************)
(* Fragment store (core/fragment_manager.py), the control panel's direct   *)
(* opacity write (ui/control_panel.py) and the canvas's viewport and       *)
(* selection handling (ui/canvas_widget.py, ui/selection_tool.py) as a     *)
(* state machine.                                                          *)
(* core/fragment.py is not among the sources: the Fragment type is taken   *)
(* from the data model of the specification.                               *)
(*                                                                         *)
(* The store's dict keeps insertion order, so it is a sequence of fragment *)
(* records with pairwise distinct ids.  Ids are uuids in the program: they *)
(* are numbered here in the order they are created and never reused.       *)
(* Positions are counted in steps of 1/PositionSteps world unit, opacity   *)
(* is the slider's percent value.  Zoom and pan are exact fractions.       *)
(* Rotations are binary floating-point numbers of degrees: the program's   *)
(* doubles carry a significand of 53 bits, the model's floats one of       *)
(* MantissaBits bits, so that the rounding of a sum happens at whole       *)
(* numbers of degrees instead of at 2^-44 of a degree.                     *)
(***************************************************************************)
EXTENDS Integers, Sequences, FiniteSets, TLC

VARIABLES
    fragments,              \* FragmentManager._fragments, in insertion order
    selected_fragment_id,   \* FragmentManager._selected_fragment_id
    next_id,                \* the id the next constructed Fragment gets
    current_fragment,       \* ControlPanel.current_fragment (object reference)
    ret,                    \* return value of the last call
    signals,                \* signals emitted during the last call, in order
    call,                   \* the last call: operation, id argument, keywords given
    before,                 \* the state as the last call found it
    view,                   \* CanvasWidget: zoom, pan_x, pan_y, width(), height()
    tool,                   \* CanvasWidget.selection_tool
    canvas                  \* CanvasWidget: group selection and interaction state

canvasVars == <<view, tool, canvas>>

vars == <<fragments, selected_fragment_id, next_id, current_fragment,
          ret, signals, call, before, view, tool, canvas>>

----------------------------------------------------------------------------
(* Bounds *)

MaxFragments == 2       \* add is not explored beyond this store size
MaxIds == 3             \* fragments constructed in one run
MaxCoord == 2           \* |x|, |y| explored
MantissaBits == 8       \* bits of a float's significand
PositionSteps == 2      \* position steps per world unit
MaxTerm == 150          \* numerators and denominators of zoom and pan explored
MaxPan == 1             \* |pan_x|, |pan_y| a mouse move may leave

None == 0               \* Python None (ids are 1, 2, ...)
GhostId == MaxIds + 1   \* an id no fragment ever has

Positions == {<<1, 2>>}           \* (x, y) written by set_position / set_transform
Deltas == {<<1, 2>>}              \* translate offsets
RotateAngles == {180, -180}       \* rotate_by arguments
SetAngles == {-180, 0, 540}       \* set_rotation arguments
TransformAngles == {0}            \* set_transform rotation arguments
SliderValues == {50}              \* opacity slider positions moved to

\* angles of the rotation runs: small and large, of both signs
TurnAngles == {-250, -77, -1, 1, 77, 250}
TurnSetAngles == {-90, -1, 0, 360, 540, 1000}
TurnTransformAngles == {-1, 450}

Absent == <<>>                    \* keyword argument left at its default None
Some(v) == <<v>>                  \* keyword argument given
IsPresent(opt) == opt # <<>>

----------------------------------------------------------------------------
(* Return values and signals *)

RetNone == [kind |-> "none", b |-> FALSE, id |-> None]
RetBool(v) == [kind |-> "bool", b |-> v, id |-> None]
RetId(i) == [kind |-> "id", b |-> FALSE, id |-> i]
RetImage == [kind |-> "image", b |-> FALSE, id |-> None]   \* a pixel buffer

fragments_changed == [name |-> "fragments_changed", arg |-> None]
fragment_selected(i) == [name |-> "fragment_selected", arg |-> i]
transform_requested(i) == [name |-> "transform_requested", arg |-> i]

----------------------------------------------------------------------------
(* The Fragment type (core/fragment.py) *)

Fragment(i) ==
    [id |-> i, x |-> 0, y |-> 0, rotation |-> 0,
     flip_horizontal |-> FALSE, flip_vertical |-> FALSE,
     visible |-> TRUE, opacity |-> 100,
     selected |-> FALSE, cache_valid |-> FALSE]

invalidate_cache(f) == [f EXCEPT !.cache_valid = FALSE]

reset_transform(f) ==
    invalidate_cache([f EXCEPT !.x = 0, !.y = 0, !.rotation = 0,
                               !.flip_horizontal = FALSE, !.flip_vertical = FALSE])

\* get_transformed_image(): derives the rotated/flipped buffer and marks it valid
recompute_cache(f) == [f EXCEPT !.cache_valid = TRUE]

----------------------------------------------------------------------------
(* The dict of fragments *)

KeyIndex(frs, i) ==
    IF \E k \in 1..Len(frs) : frs[k].id = i
    THEN CHOOSE k \in 1..Len(frs) : frs[k].id = i
    ELSE 0

Contains(frs, i) == KeyIndex(frs, i) # 0

Keys(frs) == {frs[k].id : k \in 1..Len(frs)}

\* self._fragments[f.id] = f : replaces in place, or appends a new key
DictPut(frs, f) ==
    IF Contains(frs, f.id)
    THEN [frs EXCEPT ![KeyIndex(frs, f.id)] = f]
    ELSE Append(frs, f)

\* del self._fragments[i]
DictDel(frs, i) ==
    [k \in 1..(Len(frs) - 1) |-> IF k < KeyIndex(frs, i) THEN frs[k] ELSE frs[k + 1]]

\* self._fragments.get(i), for a key the dict holds
At(frs, i) == frs[KeyIndex(frs, i)]

\* the dict after the object under key i was changed into f
Update(frs, i, f) == [frs EXCEPT ![KeyIndex(frs, i)] = f]

----------------------------------------------------------------------------
(* FragmentManager: state transformers.  A store value is the pair         *)
(* (fragments, selected) together with the signals emitted so far.         *)

Store(frs, sel, sigs) == [fragments |-> frs, selected |-> sel, signals |-> sigs]

\* the spacing of the floats around v
RECURSIVE Ulp(_)
Ulp(v) ==
    LET a == IF v < 0 THEN -v ELSE v
    IN  IF a < 2^MantissaBits THEN 1 ELSE 2 * Ulp(a \div 2)

\* the float nearest to the real number v, ties to the even significand
Round(v) ==
    LET a == IF v < 0 THEN -v ELSE v
        s == Ulp(a)
        q == a \div s
        r == a % s
        n == IF 2 * r > s \/ (2 * r = s /\ q % 2 = 1) THEN q + 1 ELSE q
    IN  IF v < 0 THEN -(n * s) ELSE n * s

\* C fmod: exact, with the sign of the dividend
Fmod(a, b) == IF a < 0 THEN -((-a) % b) ELSE a % b

\* Python's float % 360.0 : fmod, and a negative remainder gets 360.0 added
\* to it in floating point
PyMod360(a) ==
    LET mod == Fmod(a, 360)
    IN  IF mod < 0 THEN Round(mod + 360) ELSE mod

Deselect(f) == [f EXCEPT !.selected = FALSE]
Select(f) == [f EXCEPT !.selected = TRUE]

\* DeselectPrevious that leaves the previous fragment's flag set
DeselectPreviousSkipped(frs, sel) == frs

\* the "Deselect previous fragment" block of set_selected_fragment
DeselectPrevious(frs, sel) ==
    IF sel # None /\ Contains(frs, sel)
    THEN Update(frs, sel, Deselect(At(frs, sel))) ELSE frs

SetSelectedFragment(st, fid) ==
    LET frs1 == DeselectPrevious(st.fragments, st.selected)
        hit == fid # None /\ Contains(frs1, fid)
    IN  Store(IF hit THEN Update(frs1, fid, Select(At(frs1, fid))) ELSE frs1,
              fid,
              st.signals \o (IF hit THEN <<fragment_selected(fid)>> ELSE <<>>)
                         \o <<fragments_changed>>)

\* AddFragment that selects every new fragment
AddFragmentAlwaysSelect(st, i) ==
    LET frs1 == DictPut(st.fragments, Fragment(i))
        st2 == SetSelectedFragment(Store(frs1, st.selected, st.signals), i)
    IN  Store(st2.fragments, st2.selected, st2.signals \o <<fragments_changed>>)

AddFragment(st, i) ==
    LET frs1 == DictPut(st.fragments, Fragment(i))
        st1 == Store(frs1, st.selected, st.signals)
        st2 == IF Len(frs1) = 1 THEN SetSelectedFragment(st1, i) ELSE st1
    IN  Store(st2.fragments, st2.selected, st2.signals \o <<fragments_changed>>)

\* PromoteRemaining that keeps pointing at the deleted fragment's slot
PromoteRemainingNone(frs) == None

\* the selection after the selected fragment was deleted: remaining_ids[0] or None
PromoteRemaining(frs) == IF Len(frs) > 0 THEN frs[1].id ELSE None

RemoveFragment(st, i) ==
    IF Contains(st.fragments, i)
    THEN LET frs1 == DictDel(st.fragments, i)
         IN  Store(frs1,
                   IF st.selected = i THEN PromoteRemaining(frs1) ELSE st.selected,
                   st.signals \o <<fragments_changed>>)
    ELSE st

RemoveFragmentResult(st, i) == RetBool(Contains(st.fragments, i))

\* the mutators have no return statement, whether or not the id is known
MutatorResult(st, i) == RetNone

\* Mutate with the emit outside the "if fragment:" block
MutateEmitAlways(st, i, changed) ==
    Store(IF Contains(st.fragments, i) THEN Update(st.fragments, i, changed)
          ELSE st.fragments,
          st.selected, st.signals \o <<fragments_changed>>)

\* the common shape of the mutators: look the fragment up and, if it is there,
\* change it (into changed) and emit
Mutate(st, i, changed) ==
    IF Contains(st.fragments, i)
    THEN Store(Update(st.fragments, i, changed), st.selected,
               st.signals \o <<fragments_changed>>)
    ELSE st

SetVisibility(st, i, v) ==
    Mutate(st, i, [At(st.fragments, i) EXCEPT !.visible = v])

SetPosition(st, i, x, y) ==
    Mutate(st, i, [At(st.fragments, i) EXCEPT !.x = x, !.y = y])

\* Translate that also calls invalidate_cache
TranslateInvalidating(st, i, dx, dy) ==
    LET f == At(st.fragments, i)
    IN  Mutate(st, i, invalidate_cache([f EXCEPT !.x = f.x + dx, !.y = f.y + dy]))

Translate(st, i, dx, dy) ==
    LET f == At(st.fragments, i)
    IN  Mutate(st, i, [f EXCEPT !.x = f.x + dx, !.y = f.y + dy])

\* RotateFragment that writes the angle instead of adding it
RotateFragmentAbsolute(st, i, angle) ==
    LET f == At(st.fragments, i)
    IN  Mutate(st, i, invalidate_cache([f EXCEPT !.rotation = PyMod360(angle)]))

RotateFragment(st, i, angle) ==
    LET f == At(st.fragments, i)
    IN  Mutate(st, i, invalidate_cache(
                          [f EXCEPT !.rotation = PyMod360(Round(f.rotation + angle))]))

\* SetRotation that invalidates only when the rotation changes
SetRotationIfChanged(st, i, angle) ==
    LET f == At(st.fragments, i)
    IN  Mutate(st, i, IF PyMod360(angle) = f.rotation THEN f
                      ELSE invalidate_cache([f EXCEPT !.rotation = PyMod360(angle)]))

SetRotation(st, i, angle) ==
    LET f == At(st.fragments, i)
    IN  Mutate(st, i, invalidate_cache([f EXCEPT !.rotation = PyMod360(angle)]))

FlipFragment(st, i, horizontal) ==
    LET f == At(st.fragments, i)
    IN  Mutate(st, i, invalidate_cache(
                          IF horizontal
                          THEN [f EXCEPT !.flip_horizontal = ~f.flip_horizontal]
                          ELSE [f EXCEPT !.flip_vertical = ~f.flip_vertical]))

\* TransformChanged testing the arguments' truth values instead of "is not None"
TransformChangedTruthy(rotation, flip_h, flip_v) ==
    \/ IsPresent(rotation) /\ rotation[1] # 0
    \/ IsPresent(flip_h) /\ flip_h[1]
    \/ IsPresent(flip_v) /\ flip_v[1]

\* transform_changed at the end of set_fragment_transform
TransformChanged(rotation, flip_h, flip_v) ==
    IsPresent(rotation) \/ IsPresent(flip_h) \/ IsPresent(flip_v)

SetTransform(st, i, rotation, translation, flip_h, flip_v) ==
    LET f  == At(st.fragments, i)
        f1 == IF IsPresent(rotation)
              THEN [f EXCEPT !.rotation = PyMod360(rotation[1])] ELSE f
        f2 == IF IsPresent(translation)
              THEN [f1 EXCEPT !.x = translation[1][1], !.y = translation[1][2]]
              ELSE f1
        f3 == IF IsPresent(flip_h)
              THEN [f2 EXCEPT !.flip_horizontal = flip_h[1]] ELSE f2
        f4 == IF IsPresent(flip_v)
              THEN [f3 EXCEPT !.flip_vertical = flip_v[1]] ELSE f3
    IN  Mutate(st, i, IF TransformChanged(rotation, flip_h, flip_v)
                      THEN invalidate_cache(f4) ELSE f4)

ResetTransform(st, i) == Mutate(st, i, reset_transform(At(st.fragments, i)))

\* reset_all_transforms over get_visible_fragments() only
ResetAllVisible(st) ==
    Store([k \in 1..Len(st.fragments) |->
              IF st.fragments[k].visible THEN reset_transform(st.fragments[k])
              ELSE st.fragments[k]],
          st.selected, st.signals \o <<fragments_changed>>)

ResetAllTransforms(st) ==
    Store([k \in 1..Len(st.fragments) |-> reset_transform(st.fragments[k])],
          st.selected, st.signals \o <<fragments_changed>>)

----------------------------------------------------------------------------
(* Metadata interchange *)

to_dict(f) ==
    [id |-> f.id, x |-> f.x, y |-> f.y, rotation |-> f.rotation,
     flip_horizontal |-> f.flip_horizontal, flip_vertical |-> f.flip_vertical,
     visible |-> f.visible, opacity |-> f.opacity]

from_dict(d) ==
    [Fragment(d.id) EXCEPT !.x = d.x, !.y = d.y, !.rotation = d.rotation,
                           !.flip_horizontal = d.flip_horizontal,
                           !.flip_vertical = d.flip_vertical,
                           !.visible = d.visible, !.opacity = d.opacity]

ExportMetadata(st) ==
    [fragments |-> [k \in 1..Len(st.fragments) |-> to_dict(st.fragments[k])],
     selected_fragment_id |-> st.selected]

\* the loop of import_metadata over the first n records, on the cleared dict
RECURSIVE LoadRecords(_, _)
LoadRecords(recs, n) ==
    IF n = 0 THEN <<>>
    ELSE DictPut(LoadRecords(recs, n - 1), from_dict(recs[n]))

\* import_metadata that first unsets the primary selection
ImportMetadataUnselecting(st, metadata) ==
    LET frs1 == LoadRecords(metadata.fragments, Len(metadata.fragments))
        selected_id == metadata.selected_fragment_id
        st1 == Store(frs1, None, st.signals)
        st2 == IF selected_id # None /\ Contains(frs1, selected_id)
               THEN SetSelectedFragment(st1, selected_id) ELSE st1
    IN  Store(st2.fragments, st2.selected, st2.signals \o <<fragments_changed>>)

ImportMetadata(st, metadata) ==
    LET frs1 == LoadRecords(metadata.fragments, Len(metadata.fragments))
        selected_id == metadata.selected_fragment_id
        st1 == Store(frs1, st.selected, st.signals)
        st2 == IF selected_id # None /\ Contains(frs1, selected_id)
               THEN SetSelectedFragment(st1, selected_id) ELSE st1
    IN  Store(st2.fragments, st2.selected, st2.signals \o <<fragments_changed>>)

----------------------------------------------------------------------------
(* ControlPanel.current_fragment refers to the Fragment object the store  *)
(* holds under that id, or is None.                                        *)

\* fragment.opacity = value / 100.0 through the panel's reference
WriteOpacity(frs, ref, value) ==
    IF Contains(frs, ref)
    THEN Update(frs, ref, [At(frs, ref) EXCEPT !.opacity = value])
    ELSE frs

----------------------------------------------------------------------------
(* Exact fractions [n, d] in lowest terms with d > 0, for zoom, pan and    *)
(* world coordinates                                                       *)

Abs(v) == IF v < 0 THEN -v ELSE v

RECURSIVE Gcd(_, _)
Gcd(a, b) == IF b = 0 THEN a ELSE Gcd(b, a % b)

Frac(n, d) ==
    LET g == Gcd(Abs(n), Abs(d))
    IN  IF d < 0 THEN [n |-> -(n \div g), d |-> (-d) \div g]
        ELSE [n |-> n \div g, d |-> d \div g]

Whole(k) == [n |-> k, d |-> 1]

FracAdd(a, b) == Frac(a.n * b.d + b.n * a.d, a.d * b.d)
FracSub(a, b) == Frac(a.n * b.d - b.n * a.d, a.d * b.d)
FracMul(a, b) == Frac(a.n * b.n, a.d * b.d)
FracDiv(a, b) == Frac(a.n * b.d, a.d * b.n)
FracLess(a, b) == a.n * b.d < b.n * a.d
FracLeq(a, b) == a.n * b.d <= b.n * a.d
FracMin(a, b) == IF FracLess(b, a) THEN b ELSE a
FracMax(a, b) == IF FracLess(a, b) THEN b ELSE a

\* min(...) and max(...) over the numbers of a non-empty set
FracMinOf(S) == CHOOSE a \in S : \A b \in S : FracLeq(a, b)
FracMaxOf(S) == CHOOSE a \in S : \A b \in S : FracLeq(b, a)

\* int(): truncation towards zero
Trunc(a) == IF a.n < 0 THEN -((-a.n) \div a.d) ELSE a.n \div a.d

\* what a float division by zero leaves when it does not raise
NaN == [n |-> 0, d |-> 0]
Infinity == [n |-> 1, d |-> 0]

IsFinite(a) == a.d # 0

----------------------------------------------------------------------------
(* The fragments as the canvas sees them (core/fragment.py)                *)

\* (width, height) of the pixel buffer of fragment i
PixelSize(i) ==
    CASE i = 1 -> <<200, 100>>
      [] i = 2 -> <<4, 2>>
      [] i = 3 -> <<0, 3>>
      [] OTHER -> <<6, 4>>

\* Fragment.get_bounding_box(): (x, y, w, h) of the transformed image in
\* world units; a quarter turn swaps width and height
get_bounding_box(f) ==
    LET size == PixelSize(f.id)
        turned == f.rotation \in {90, 270}
    IN  [x |-> Frac(f.x, PositionSteps), y |-> Frac(f.y, PositionSteps),
         w |-> IF turned THEN size[2] ELSE size[1],
         h |-> IF turned THEN size[1] ELSE size[2]]

\* Fragment.contains_point(x, y), for a fragment at a multiple of a quarter turn
contains_point(f, x, y) ==
    LET bbox == get_bounding_box(f)
    IN  /\ FracLeq(bbox.x, Whole(x)) /\ FracLess(Whole(x), FracAdd(bbox.x, Whole(bbox.w)))
        /\ FracLeq(bbox.y, Whole(y)) /\ FracLess(Whole(y), FracAdd(bbox.y, Whole(bbox.h)))

----------------------------------------------------------------------------
(* QRect of Qt 6: the corners (x1, y1) and (x2, y2) are both inside        *)

QRectOfPoints(top_left, bottom_right) ==
    [x1 |-> top_left[1], y1 |-> top_left[2],
     x2 |-> bottom_right[1], y2 |-> bottom_right[2]]

QRectOfSize(x, y, width, height) ==
    [x1 |-> x, y1 |-> y, x2 |-> x + width - 1, y2 |-> y + height - 1]

QRectIsNull(r) == r.x2 = r.x1 - 1 /\ r.y2 = r.y1 - 1

\* QRect::normalized(): swapped corners turn from outside to inside corners
QRectNormalized(r) ==
    [x1 |-> IF r.x2 < r.x1 THEN r.x2 + 1 ELSE r.x1,
     x2 |-> IF r.x2 < r.x1 THEN r.x1 - 1 ELSE r.x2,
     y1 |-> IF r.y2 < r.y1 THEN r.y2 + 1 ELSE r.y1,
     y2 |-> IF r.y2 < r.y1 THEN r.y1 - 1 ELSE r.y2]

\* QRect::intersects()
QRectIntersects(a, b) ==
    LET l1 == IF a.x2 < a.x1 - 1 THEN a.x2 + 1 ELSE a.x1
        r1 == IF a.x2 < a.x1 - 1 THEN a.x1 - 1 ELSE a.x2
        l2 == IF b.x2 < b.x1 - 1 THEN b.x2 + 1 ELSE b.x1
        r2 == IF b.x2 < b.x1 - 1 THEN b.x1 - 1 ELSE b.x2
        t1 == IF a.y2 < a.y1 - 1 THEN a.y2 + 1 ELSE a.y1
        b1 == IF a.y2 < a.y1 - 1 THEN a.y1 - 1 ELSE a.y2
        t2 == IF b.y2 < b.y1 - 1 THEN b.y2 + 1 ELSE b.y1
        b2 == IF b.y2 < b.y1 - 1 THEN b.y1 - 1 ELSE b.y2
    IN  /\ ~QRectIsNull(a) /\ ~QRectIsNull(b)
        /\ ~(l1 > r2 \/ l2 > r1)
        /\ ~(t1 > b2 \/ t2 > b1)

\* QRect(int(bbox[0]), int(bbox[1]), int(bbox[2]), int(bbox[3]))
FragmentRect(f) ==
    LET bbox == get_bounding_box(f)
    IN  QRectOfSize(Trunc(bbox.x), Trunc(bbox.y), bbox.w, bbox.h)

----------------------------------------------------------------------------
(* CanvasWidget: the viewport                                              *)

min_zoom == Frac(1, 100)
max_zoom == Whole(50)

viewport_changed == [name |-> "viewport_changed", arg |-> None]
canvas_fragment_selected(arg) == [name |-> "canvas.fragment_selected", arg |-> arg]
fragment_moved(i, x, y) == [name |-> "fragment_moved", arg |-> <<i, x, y>>]

RetRaise == [kind |-> "raise", b |-> FALSE, id |-> None]   \* an exception leaves the handler

\* the state of one canvas: what a handler returns, the signals it emitted
\* and frs, the store's Fragment objects, which the canvas reads and writes
Widget(v, t, c, frs, result, sigs) ==
    [view |-> v, tool |-> t, canvas |-> c, fragments |-> frs,
     ret |-> result, signals |-> sigs]

screen_to_world(v, p) ==
    <<Trunc(FracSub(FracDiv(Whole(p[1]), v.zoom), v.pan_x)),
      Trunc(FracSub(FracDiv(Whole(p[2]), v.zoom), v.pan_y))>>

\* np.clip
Clip(a, lo, hi) == FracMin(FracMax(a, lo), hi)

----------------------------------------------------------------------------
(* CanvasWidget: the fragment list, the cached pixmaps and painting.       *)
(* self.fragments holds Fragment objects, which the store shares with the  *)
(* canvas (get_all_fragments copies the list, not the objects).  An entry  *)
(* of the list is the store's object under its id, or, once the store has  *)
(* dropped that object, the object as it was then (frozen).                *)
(* fragment_zoom_cache is written and popped beside fragment_pixmaps and   *)
(* never read: it is left out.                                             *)

Inactive == -1          \* a timer that is not running; else the ms left
FastInterval == 16      \* fast_update_timer.start(16)
RenderInterval == 50    \* render_timer.start(50)

Usable(v) == v.zoom.n > 0 /\ IsFinite(v.zoom) /\ IsFinite(v.pan_x) /\ IsFinite(v.pan_y)

Entry(i) == [id |-> i, frozen |-> FALSE, f |-> Fragment(i)]

\* the list get_all_fragments() returns, as the canvas keeps it
Entries(frs) == [k \in 1..Len(frs) |-> Entry(frs[k].id)]

ObjectOf(e, frs) == IF e.frozen THEN e.f ELSE At(frs, e.id)

\* the Fragment objects of self.fragments, as they are now
Shown(c, frs) == [k \in 1..Len(c.fragments) |-> ObjectOf(c.fragments[k], frs)]

\* the store drops its objects under the keys ids: the canvas keeps them
Detach(c, frs, ids) ==
    [c EXCEPT !.fragments =
        [k \in 1..Len(c.fragments) |->
            IF ~c.fragments[k].frozen /\ c.fragments[k].id \in ids
            THEN [id |-> c.fragments[k].id, frozen |-> TRUE,
                  f |-> At(frs, c.fragments[k].id)]
            ELSE c.fragments[k]]]

\* a write to the object at index k of self.fragments
SetObject(w, k, f) ==
    IF w.canvas.fragments[k].frozen
    THEN [w EXCEPT !.canvas.fragments[k].f = f]
    ELSE [w EXCEPT !.fragments = Update(w.fragments, f.id, f)]

\* what a QPixmap derived from the fragment shows
Pixmap(f) ==
    [rotation |-> f.rotation, flip_horizontal |-> f.flip_horizontal,
     flip_vertical |-> f.flip_vertical]

\* dict[key] = value and dict.pop(key, None), on a set of keys
PutPixmap(pixmaps, i, pixmap) ==
    [j \in DOMAIN pixmaps \cup {i} |-> IF j = i THEN pixmap ELSE pixmaps[j]]

PopPixmaps(pixmaps, ids) == [j \in DOMAIN pixmaps \ ids |-> pixmaps[j]]

\* image.shape[2] of the transformed image, 1 for a two-dimensional array:
\* fragment 1 is a greyscale image
Channels(i) == IF i = 1 THEN 1 ELSE 4

\* numpy_to_pixmap returns a pixmap: not for an image of size 0, and only
\* for three or four channels
Derivable(f) ==
    /\ PixelSize(f.id)[1] * PixelSize(f.id)[2] # 0
    /\ Channels(f.id) \in {3, 4}

\* start without the isActive test: a pending timer starts over
StartTimerAgain(timer, ms) == ms

\* timer.start(ms) under `if not timer.isActive()`
StartTimer(timer, ms) == IF timer = Inactive THEN ms ELSE timer

\* schedule_render that starts no timer
ScheduleRenderNever(w, fast) == w

ScheduleRender(w, fast) ==
    IF fast /\ (w.canvas.is_dragging_fragment \/ w.canvas.is_panning)
    THEN [w EXCEPT !.canvas.fast_update_timer = StartTimer(@, FastInterval)]
    ELSE [w EXCEPT !.canvas.render_timer = StartTimer(@, RenderInterval)]

\* get_visible_world_rect: rect() is QRect(0, 0, width, height)
VisibleWorldRect(v) ==
    QRectOfPoints(screen_to_world(v, <<0, 0>>),
                  screen_to_world(v, <<v.width - 1, v.height - 1>>))

\* the ids draw_fragment finds without a pixmap in one paintEvent
Unpainted(w) ==
    LET frs == Shown(w.canvas, w.fragments)
    IN  {frs[k].id : k \in {j \in 1..Len(frs) :
            /\ frs[j].visible
            /\ QRectIntersects(FragmentRect(frs[j]), VisibleWorldRect(w.view))
            /\ frs[j].id \notin DOMAIN w.canvas.fragment_pixmaps}}

\* the ids whose pixmap draw_fragment draws in one paintEvent
Drawn(w) ==
    LET frs == Shown(w.canvas, w.fragments)
    IN  {frs[k].id : k \in {j \in 1..Len(frs) :
            /\ frs[j].visible
            /\ QRectIntersects(FragmentRect(frs[j]), VisibleWorldRect(w.view))
            /\ frs[j].id \in DOMAIN w.canvas.fragment_pixmaps}}

\* paintEvent.  A handler that raised, or a view left with a zoom of 0 or a
\* pan that is not a number, is not painted.
Painted(w) ==
    IF w.ret.kind = "raise" \/ ~Usable(w.view) THEN w
    ELSE LET missing == Unpainted(w)
         IN  IF missing = {} THEN w
             ELSE ScheduleRender(
                      [w EXCEPT !.canvas.dirty_fragments = @ \cup missing], FALSE)

\* force_immediate_update: update() and repaint(), on a widget that is shown
ForceImmediateUpdate(w) == Painted(w)

\* update_fragments(fragments) with the list the store returns now
UpdateFragments(w) ==
    LET c == w.canvas
        new == w.fragments
        old == Shown(c, new)
        old_fragment_ids == Keys(old)
        new_fragment_ids == Keys(new)
        changed(f) ==
            LET old_fragment == At(old, f.id)
            IN  \/ 100 * Abs(old_fragment.rotation - f.rotation) > 1
                \/ old_fragment.flip_horizontal # f.flip_horizontal
                \/ old_fragment.flip_vertical # f.flip_vertical
                \/ old_fragment.visible # f.visible
        needs_update ==
            {new[k].id : k \in {j \in 1..Len(new) :
                \/ new[j].id \notin old_fragment_ids
                \/ ~new[j].cache_valid
                \/ (new[j].id \in old_fragment_ids /\ changed(new[j]))}}
        invisible == {new[k].id : k \in {j \in 1..Len(new) : ~new[j].visible}}
    IN  ScheduleRender(
            [w EXCEPT !.canvas.fragments = Entries(new),
                      !.canvas.dirty_fragments = @ \cup needs_update,
                      !.canvas.fragment_pixmaps =
                          PopPixmaps(@, (old_fragment_ids \ new_fragment_ids)
                                            \cup needs_update \cup invisible)],
            FALSE)

\* render_fragment_pixmap on the object at index k of self.fragments;
\* get_transformed_image() marks the object's cache valid
RenderFragmentPixmap(w, k) ==
    LET f == Shown(w.canvas, w.fragments)[k]
        w1 == SetObject(w, k, recompute_cache(f))
    IN  IF Derivable(f)
        THEN [w1 EXCEPT !.canvas.fragment_pixmaps = PutPixmap(@, f.id, Pixmap(f))]
        ELSE w1

\* the loop of render_dirty_fragments without the test of fragment.visible
RECURSIVE RenderFromHidden(_, _)
RenderFromHidden(w, k) ==
    IF k > Len(w.canvas.fragments) THEN w
    ELSE LET f == Shown(w.canvas, w.fragments)[k]
             first == \A j \in 1..(k - 1) : w.canvas.fragments[j].id # f.id
         IN  RenderFromHidden(IF f.id \in w.canvas.dirty_fragments /\ first
                              THEN RenderFragmentPixmap(w, k) ELSE w,
                              k + 1)

\* the loop of render_dirty_fragments over the dirty ids, one list index
\* after the other (the renders of different fragments do not interact)
RECURSIVE RenderFrom(_, _)
RenderFrom(w, k) ==
    IF k > Len(w.canvas.fragments) THEN w
    ELSE LET f == Shown(w.canvas, w.fragments)[k]
             first == \A j \in 1..(k - 1) : w.canvas.fragments[j].id # f.id
         IN  RenderFrom(IF f.id \in w.canvas.dirty_fragments /\ first /\ f.visible
                        THEN RenderFragmentPixmap(w, k) ELSE w,
                        k + 1)

\* render_dirty_fragments that keeps in the dirty set what it did not render
RenderDirtyFragmentsKeeping(w) ==
    [RenderFrom(w, 1) EXCEPT !.canvas.dirty_fragments =
        @ \ DOMAIN RenderFrom(w, 1).canvas.fragment_pixmaps]

RenderDirtyFragments(w) ==
    IF w.canvas.dirty_fragments = {} THEN w
    ELSE [RenderFrom(w, 1) EXCEPT !.canvas.dirty_fragments = {}]

OnFragmentRendered(w, fragment_id, pixmap) ==
    [w EXCEPT !.canvas.fragment_pixmaps = PutPixmap(@, fragment_id, pixmap)]

\* FragmentRenderer.render_fragment(fragment, zoom) on a Fragment object f,
\* whose rendering_finished signal runs on_fragment_rendered; live says that
\* f is the store's object
RenderFragment(w, f, live) ==
    OnFragmentRendered(
        IF live THEN [w EXCEPT !.fragments = Update(@, f.id, recompute_cache(f))]
        ELSE w,
        f.id, Pixmap(f))

InvalidateFragment(w, fragment_id) ==
    ScheduleRender(
        [w EXCEPT !.canvas.dirty_fragments = @ \cup {fragment_id},
                  !.canvas.fragment_pixmaps = PopPixmaps(@, {fragment_id})],
        FALSE)

ClearCache(w) ==
    LET frs == Shown(w.canvas, w.fragments)
    IN  ScheduleRender(
            [w EXCEPT !.canvas.fragment_pixmaps = <<>>,
                      !.canvas.dirty_fragments =
                          @ \cup {frs[k].id : k \in {j \in 1..Len(frs) : frs[j].visible}}],
            FALSE)

\* the timeout of render_timer: render_dirty_fragments
RenderTimeout(w) ==
    RenderDirtyFragments([w EXCEPT !.canvas.render_timer = Inactive])

\* the timeout of fast_update_timer: update()
FastTimeout(w) == [w EXCEPT !.canvas.fast_update_timer = Inactive]

\* ms of time pass: what is left of the running timers
Left(timer, ms) ==
    IF timer = Inactive THEN Inactive ELSE IF timer > ms THEN timer - ms ELSE 0

----------------------------------------------------------------------------
(* CanvasWidget: zoom                                                      *)

\* wheelEvent at screen point p, up for a positive angleDelta
WheelZoom(w, p, up) ==
    LET v == w.view
        mouse_world_before == screen_to_world(v, p)
        new_zoom == Clip(FracMul(v.zoom, IF up THEN Frac(6, 5) ELSE Frac(5, 6)),
                         min_zoom, max_zoom)
        v1 == [v EXCEPT !.zoom = new_zoom]
        mouse_world_after == screen_to_world(v1, p)
    IN  IF new_zoom # v.zoom
        THEN ForceImmediateUpdate(
             [w EXCEPT !.view = [v1 EXCEPT
                  !.pan_x = FracAdd(v.pan_x, Whole(mouse_world_before[1] - mouse_world_after[1])),
                  !.pan_y = FracAdd(v.pan_y, Whole(mouse_world_before[2] - mouse_world_after[2]))],
               !.signals = w.signals \o <<viewport_changed>>])
        ELSE w

\* min_x, min_y, max_x, max_y over the bounding boxes of a non-empty list
ContentBounds(frs) ==
    LET boxes == {get_bounding_box(frs[k]) : k \in 1..Len(frs)}
    IN  [min_x |-> FracMinOf({b.x : b \in boxes}),
         min_y |-> FracMinOf({b.y : b \in boxes}),
         max_x |-> FracMaxOf({FracAdd(b.x, Whole(b.w)) : b \in boxes}),
         max_y |-> FracMaxOf({FracAdd(b.y, Whole(b.h)) : b \in boxes})]

\* get_composite_bounds that takes the hidden fragments too
CompositeBoundsOfAll(frs) ==
    IF Len(frs) = 0
    THEN [min_x |-> Whole(0), min_y |-> Whole(0), max_x |-> Whole(0), max_y |-> Whole(0)]
    ELSE ContentBounds(frs)

\* FragmentManager.get_composite_bounds: (min_x, min_y, max_x, max_y) of the
\* store's dict
CompositeBounds(frs) ==
    LET visible_fragments == SelectSeq(frs, LAMBDA f : f.visible)
    IN  IF Len(frs) = 0 \/ Len(visible_fragments) = 0
        THEN [min_x |-> Whole(0), min_y |-> Whole(0),
              max_x |-> Whole(0), max_y |-> Whole(0)]
        ELSE ContentBounds(visible_fragments)

\* a / b in floats when b is 0.0 and the division does not raise
DivideByZero(a) == IF a.n = 0 THEN NaN ELSE Infinity

\* FitZoom that clamps the zoom it writes
FitZoomClamped(width, height, content_width, content_height) ==
    Clip(FracMul(FracMin(FracDiv(Whole(width), content_width),
                         FracDiv(Whole(height), content_height)), Frac(9, 10)),
         min_zoom, max_zoom)

\* min(zoom_x, zoom_y) * 0.9
FitZoom(width, height, content_width, content_height) ==
    FracMul(FracMin(FracDiv(Whole(width), content_width),
                    FracDiv(Whole(height), content_height)), Frac(9, 10))

\* the body that zoom_to_fit and zoom_to_selected_fragments share, on the list
\* frs of fragments to show: the widgets it can leave.  With a zoom of 0.0 the
\* division for pan_x raises, or gives nan or inf if the bounding box holds
\* numpy numbers.
ZoomToBounds(w, frs) ==
    IF Len(frs) = 0 THEN {w}
    ELSE
    LET b == ContentBounds(frs)
        content_width == FracSub(b.max_x, b.min_x)
        content_height == FracSub(b.max_y, b.min_y)
        v == w.view
    IN  IF FracLeq(content_width, Whole(0)) \/ FracLeq(content_height, Whole(0))
        THEN {w}
        ELSE
        LET zoom == FitZoom(v.width, v.height, content_width, content_height)
            cx == FracDiv(FracAdd(b.min_x, b.max_x), Whole(2))
            cy == FracDiv(FracAdd(b.min_y, b.max_y), Whole(2))
        IN  IF zoom.n = 0
            THEN {[w EXCEPT !.view = [v EXCEPT !.zoom = zoom], !.ret = RetRaise],
                  [w EXCEPT !.view = [v EXCEPT
                       !.zoom = zoom,
                       !.pan_x = DivideByZero(Frac(v.width, 2)),
                       !.pan_y = DivideByZero(Frac(v.height, 2))],
                    !.signals = w.signals \o <<viewport_changed>>]}
            ELSE {ForceImmediateUpdate(
                  [w EXCEPT !.view = [v EXCEPT
                       !.zoom = zoom,
                       !.pan_x = FracSub(FracDiv(Frac(v.width, 2), zoom), cx),
                       !.pan_y = FracSub(FracDiv(Frac(v.height, 2), zoom), cy)],
                    !.signals = w.signals \o <<viewport_changed>>])}

VisibleOf(frs) == SelectSeq(frs, LAMBDA f : f.visible)

ZoomToFit(w, frs) == ZoomToBounds(w, VisibleOf(frs))

ZoomToSelectedFragments(w, frs) ==
    IF w.canvas.group_selected_fragments = {} THEN {w}
    ELSE ZoomToBounds(w, SelectSeq(frs,
             LAMBDA f : f.id \in w.canvas.group_selected_fragments /\ f.visible))

ZoomTo100(w) ==
    ForceImmediateUpdate(
        [w EXCEPT !.view = [w.view EXCEPT !.zoom = Whole(1), !.pan_x = Whole(0),
                                          !.pan_y = Whole(0)],
                  !.signals = w.signals \o <<viewport_changed>>])

----------------------------------------------------------------------------
(* SelectionTool                                                           *)

start_selection(t, start_point) ==
    [t EXCEPT !.is_selecting = TRUE, !.selection_start = start_point,
              !.selection_end = start_point]

update_selection(t, end_point) ==
    IF t.is_selecting THEN [t EXCEPT !.selection_end = end_point] ELSE t

\* the ids finish_selection collects for the rectangle from start to end
SelectedBy(start, end, frs) ==
    {frs[k].id : k \in {j \in 1..Len(frs) :
        /\ frs[j].visible
        /\ QRectIntersects(QRectNormalized(QRectOfPoints(start, end)),
                           FragmentRect(frs[j]))}}

\* finish_selection: the tool afterwards; its set is the value returned
FinishSelection(t, frs) ==
    IF ~t.is_selecting THEN t
    ELSE [t EXCEPT !.is_selecting = FALSE,
                   !.selected_fragment_ids =
                       SelectedBy(t.selection_start, t.selection_end, frs)]

----------------------------------------------------------------------------
(* CanvasWidget: selection and mouse handling.  After the first rectangle  *)
(* selection group_selected_fragments is the tool's set object itself      *)
(* (canvas.shared): clearing it clears the tool's set.                     *)

NoOffsets == <<>>       \* the empty dict

\* self.group_selected_fragments.clear()
ClearGroup(w) ==
    [w EXCEPT !.canvas = [w.canvas EXCEPT !.group_selected_fragments = {}],
              !.tool = IF w.canvas.shared
                       THEN [w.tool EXCEPT !.selected_fragment_ids = {}]
                       ELSE w.tool]

\* get_selected_fragments that prefers the primary selection
GetSelectedPrimaryFirst(c) ==
    IF c.selected_fragment_id # None THEN {c.selected_fragment_id}
    ELSE c.group_selected_fragments

get_selected_fragments(c) ==
    IF c.group_selected_fragments # {} THEN c.group_selected_fragments
    ELSE IF c.selected_fragment_id # None THEN {c.selected_fragment_id}
    ELSE {}

\* the indices of the visible fragments that contain the point
Hits(frs, x, y) ==
    {k \in 1..Len(frs) : frs[k].visible /\ contains_point(frs[k], x, y)}

\* get_fragment_at_position that walks the list from the front
BottommostAt(frs, x, y) ==
    IF Hits(frs, x, y) = {} THEN 0
    ELSE CHOOSE k \in Hits(frs, x, y) : \A j \in Hits(frs, x, y) : j >= k

\* get_fragment_at_position: the index of the topmost hit, 0 for None
TopmostAt(frs, x, y) ==
    IF Hits(frs, x, y) = {} THEN 0
    ELSE CHOOSE k \in Hits(frs, x, y) : \A j \in Hits(frs, x, y) : j <= k

\* QPoint(int(world_pos.x() - frag.x), int(world_pos.y() - frag.y))
OffsetTo(world_pos, f) ==
    <<Trunc(FracSub(Whole(world_pos[1]), Frac(f.x, PositionSteps))),
      Trunc(FracSub(Whole(world_pos[2]), Frac(f.y, PositionSteps)))>>

SetCanvasSelectedFragment(w, fragment_id) ==
    IF w.canvas.selected_fragment_id # fragment_id
    THEN ForceImmediateUpdate(
             [w EXCEPT !.canvas = [w.canvas EXCEPT !.selected_fragment_id = fragment_id]])
    ELSE w

SetSelectionToolActive(w, active) ==
    LET w1 == [w EXCEPT !.tool = [w.tool EXCEPT !.is_active = active]]
    IN  ForceImmediateUpdate(
            IF ~active
            THEN ClearGroup([w1 EXCEPT !.tool = [w1.tool EXCEPT
                                           !.selected_fragment_ids = {}]])
            ELSE w1)

\* mousePressEvent with the left button at world_pos
LeftPress(w, frs, world_pos) ==
    IF w.tool.is_active
    THEN [w EXCEPT !.tool = start_selection(w.tool, world_pos)]
    ELSE
    LET k == TopmostAt(frs, world_pos[1], world_pos[2])
    IN  IF k # 0
        THEN IF frs[k].id \in w.canvas.group_selected_fragments
             THEN [w EXCEPT !.canvas = [w.canvas EXCEPT
                      !.is_group_dragging = TRUE,
                      !.group_drag_start = world_pos,
                      !.group_drag_offsets =
                          [i \in w.canvas.group_selected_fragments \cap Keys(frs) |->
                              OffsetTo(world_pos, At(frs, i))]]]
             ELSE LET w1 == ClearGroup([w EXCEPT !.signals =
                                 w.signals \o <<canvas_fragment_selected(frs[k].id)>>])
                  IN  [w1 EXCEPT !.canvas = [w1.canvas EXCEPT
                          !.is_dragging_fragment = TRUE,
                          !.dragged_fragment_id = frs[k].id,
                          !.drag_offset = OffsetTo(world_pos, frs[k])]]
        ELSE LET w1 == ClearGroup(w)
             IN  [w1 EXCEPT !.canvas = [w1.canvas EXCEPT !.is_panning = TRUE]]

MousePress(w, frs, button, pos) ==
    LET w1 == CASE button = "left" -> LeftPress(w, frs, screen_to_world(w.view, pos))
                [] button = "middle" ->
                       [w EXCEPT !.canvas = [w.canvas EXCEPT !.is_panning = TRUE]]
                [] OTHER -> w
    IN  [w1 EXCEPT !.canvas = [w1.canvas EXCEPT !.last_mouse_pos = pos]]

\* the orders in which a loop can visit the set S
RECURSIVE Orders(_)
Orders(S) ==
    IF S = {} THEN {<<>>}
    ELSE UNION {{<<e>> \o rest : rest \in Orders(S \ {e})} : e \in S}

\* the fragment_moved signals of one group-drag move, visiting in this order
GroupMoves(c, world_pos, order) ==
    [k \in 1..Len(order) |->
        fragment_moved(order[k],
                       world_pos[1] - c.group_drag_offsets[order[k]][1],
                       world_pos[2] - c.group_drag_offsets[order[k]][2])]

\* mouseMoveEvent: the widgets it can leave (a set is looped over in any order)
MouseMove(w, pos) ==
    LET world_pos == screen_to_world(w.view, pos)
        c == w.canvas
        moved ==
          IF w.tool.is_active /\ w.tool.is_selecting
          THEN {ForceImmediateUpdate(
                    [w EXCEPT !.tool = update_selection(w.tool, world_pos)])}
          ELSE IF c.is_group_dragging
          THEN {ForceImmediateUpdate(
                    [w EXCEPT !.signals = w.signals \o GroupMoves(c, world_pos, order)]) :
                   order \in Orders(c.group_selected_fragments
                                        \cap DOMAIN c.group_drag_offsets)}
          ELSE IF c.is_dragging_fragment /\ c.dragged_fragment_id # None
          THEN {ForceImmediateUpdate(
                    [w EXCEPT !.signals = w.signals \o
                    <<fragment_moved(c.dragged_fragment_id,
                                     world_pos[1] - c.drag_offset[1],
                                     world_pos[2] - c.drag_offset[2])>>])}
          ELSE IF c.is_panning
          THEN {ForceImmediateUpdate(
                    [w EXCEPT !.view = [w.view EXCEPT
                     !.pan_x = FracAdd(w.view.pan_x,
                         FracDiv(Whole(pos[1] - c.last_mouse_pos[1]), w.view.zoom)),
                     !.pan_y = FracAdd(w.view.pan_y,
                         FracDiv(Whole(pos[2] - c.last_mouse_pos[2]), w.view.zoom))],
                   !.signals = w.signals \o <<viewport_changed>>])}
          ELSE {w}
    IN  {[w1 EXCEPT !.canvas = [w1.canvas EXCEPT !.last_mouse_pos = pos]] : w1 \in moved}

\* the end of mouseReleaseEvent's selection branch, after the zoom
AfterZoomToSelection(w) ==
    IF w.ret = RetRaise THEN w
    ELSE ForceImmediateUpdate(
             [w EXCEPT !.signals = w.signals \o
                           <<canvas_fragment_selected("group_selection")>>])

\* mouseReleaseEvent: the widgets it can leave
MouseRelease(w, frs) ==
    IF w.tool.is_active /\ w.tool.is_selecting
    THEN LET t1 == FinishSelection(w.tool, frs)
             w1 == [w EXCEPT !.tool = t1,
                             !.canvas = [w.canvas EXCEPT
                                 !.group_selected_fragments = t1.selected_fragment_ids,
                                 !.shared = TRUE]]
         IN  {AfterZoomToSelection(w2) :
                w2 \in (IF t1.selected_fragment_ids # {}
                        THEN ZoomToSelectedFragments(w1, frs) ELSE {w1})}
    ELSE {[w EXCEPT !.canvas = [w.canvas EXCEPT
              !.is_panning = FALSE, !.is_dragging_fragment = FALSE,
              !.is_group_dragging = FALSE, !.dragged_fragment_id = None,
              !.group_drag_offsets = NoOffsets]]}

\* GroupRotations with a move request beside every rotation request
GroupRotationsAroundCentre(transform_type, order) ==
    [k \in 1..(2 * Len(order)) |->
        IF k % 2 = 1
        THEN canvas_fragment_selected(<<"group", transform_type, order[(k + 1) \div 2]>>)
        ELSE fragment_moved(order[k \div 2], 0, 0)]

\* the rotation requests of apply_transform_to_selection, visiting in this order
GroupRotations(transform_type, order) ==
    [k \in 1..Len(order) |->
        canvas_fragment_selected(<<"group", transform_type, order[k]>>)]

\* apply_transform_to_selection: the widgets it can leave
ApplyTransformToSelection(w, transform_type) ==
    LET selected_ids == get_selected_fragments(w.canvas)
    IN  IF selected_ids = {} THEN {w}
        ELSE IF Cardinality(selected_ids) > 1
                /\ transform_type \in {"rotate_cw", "rotate_ccw"}
        THEN {ForceImmediateUpdate(
                  [w EXCEPT !.signals = w.signals \o GroupRotations(transform_type, order)]) :
                 order \in Orders(selected_ids)}
        ELSE IF Cardinality(selected_ids) = 1
        THEN {ForceImmediateUpdate(
                  [w EXCEPT !.signals = w.signals \o
                  <<canvas_fragment_selected(CHOOSE i \in selected_ids : TRUE)>>])}
        ELSE {ForceImmediateUpdate(w)}

----------------------------------------------------------------------------
(* CanvasWidget.__init__ and SelectionTool.__init__                        *)

NewView(width, height) ==
    [zoom |-> Whole(1), pan_x |-> Whole(0), pan_y |-> Whole(0),
     width |-> width, height |-> height]

NewTool ==
    [is_active |-> FALSE, is_selecting |-> FALSE,
     selection_start |-> <<0, 0>>, selection_end |-> <<0, 0>>,
     selected_fragment_ids |-> {}]

NewCanvas ==
    [selected_fragment_id |-> None, group_selected_fragments |-> {},
     shared |-> FALSE, is_panning |-> FALSE, is_dragging_fragment |-> FALSE,
     dragged_fragment_id |-> None, drag_offset |-> <<0, 0>>,
     is_group_dragging |-> FALSE, group_drag_start |-> <<0, 0>>,
     group_drag_offsets |-> NoOffsets, last_mouse_pos |-> <<0, 0>>,
     fragments |-> <<>>, fragment_pixmaps |-> <<>>, dirty_fragments |-> {},
     fast_update_timer |-> Inactive, render_timer |-> Inactive]

\* a new canvas after its first update_fragments, with the store's list frs
CanvasShowing(v, frs) ==
    UpdateFragments(Widget(v, NewTool, NewCanvas, frs, RetNone, <<>>)).canvas

\* a canvas that no event has reached yet
InitCanvas ==
    /\ view = NewView(1000, 500)
    /\ tool = NewTool
    /\ canvas = NewCanvas

----------------------------------------------------------------------------
(* Inputs *)

Here == Store(fragments, selected_fragment_id, <<>>)

\* ids a caller can hold: of fragments constructed so far, and one of none
InputIds == (1..(next_id - 1)) \cup {GhostId}

\* the fragment the panel shows, and an id that is in no store
TransformTargets == {current_fragment, GhostId}

OptOf(S) == {Absent} \cup {Some(v) : v \in S}

InRange(f) == f.x \in -MaxCoord..MaxCoord /\ f.y \in -MaxCoord..MaxCoord

\* metadata documents: the store's own export, and documents naming
\* fragments constructed earlier, each with any selected_fragment_id
RecordLists ==
    {ExportMetadata(Here).fragments, <<>>} \cup
    {<<to_dict(Fragment(i))>> : i \in 1..(next_id - 1)} \cup
    {<<to_dict(Fragment(i)), to_dict(Fragment(j))>> :
        i \in 1..(next_id - 1), j \in 1..(next_id - 1)}

MetaDocs ==
    {[fragments |-> recs, selected_fragment_id |-> s] :
        recs \in RecordLists, s \in {None} \cup InputIds}

\* the keyword arguments of set_fragment_transform that are not None
Given(rotation, translation, flip_h, flip_v) ==
    (IF IsPresent(rotation) THEN {"rotation"} ELSE {}) \cup
    (IF IsPresent(translation) THEN {"translation"} ELSE {}) \cup
    (IF IsPresent(flip_h) THEN {"flip_horizontal"} ELSE {}) \cup
    (IF IsPresent(flip_v) THEN {"flip_vertical"} ELSE {})

----------------------------------------------------------------------------
(* Operations *)

\* what update_fragments compares of a fragment, and its position
Seen(frs) ==
    [k \in 1..Len(frs) |->
        [id |-> frs[k].id, x |-> frs[k].x, y |-> frs[k].y,
         rotation |-> frs[k].rotation,
         flip_horizontal |-> frs[k].flip_horizontal,
         flip_vertical |-> frs[k].flip_vertical, visible |-> frs[k].visible]]

\* History: the call just made, the state it was made in, and in seen the
\* values of the list the canvas was given by the last update_fragments
\* before it
Recorded(op, i, given, arg) ==
    /\ call' = [op |-> op, id |-> i, given |-> given, arg |-> arg]
    /\ before' = [fragments |-> fragments, selected |-> selected_fragment_id,
                  view |-> view, tool |-> tool, canvas |-> canvas,
                  seen |-> IF call.op = "update_fragments"
                           THEN Seen(fragments) ELSE before.seen]

Called(op, i, given) == Recorded(op, i, given, <<>>)

Apply(st, result) ==
    /\ fragments' = st.fragments
    /\ selected_fragment_id' = st.selected
    /\ signals' = st.signals
    /\ ret' = result

Init ==
    /\ fragments = <<>>
    /\ selected_fragment_id = None
    /\ next_id = 1
    /\ current_fragment = None
    /\ ret = RetNone
    /\ signals = <<>>
    /\ InitCanvas
    /\ call = [op |-> "init", id |-> None, given |-> {}, arg |-> <<>>]
    /\ before = [fragments |-> <<>>, selected |-> None,
                 view |-> view, tool |-> tool, canvas |-> canvas, seen |-> <<>>]

add_fragment_from_image ==
    /\ next_id <= MaxIds
    /\ Len(fragments) < MaxFragments
    /\ Apply(AddFragment(Here, next_id), RetId(next_id))
    /\ Called("add_fragment_from_image", next_id, {})
    /\ next_id' = next_id + 1
    /\ UNCHANGED current_fragment
    /\ UNCHANGED canvasVars

\* the object removed stays in the list the canvas holds
remove_fragment(i) ==
    /\ Apply(RemoveFragment(Here, i), RemoveFragmentResult(Here, i))
    /\ Called("remove_fragment", i, {})
    /\ canvas' = Detach(canvas, fragments, {i})
    /\ UNCHANGED <<next_id, current_fragment, view, tool>>

set_selected_fragment(i) ==
    /\ Apply(SetSelectedFragment(Here, i), RetNone)
    /\ Called("set_selected_fragment", i, {})
    /\ UNCHANGED <<next_id, current_fragment>>
    /\ UNCHANGED canvasVars

set_fragment_visibility(i, v) ==
    /\ Apply(SetVisibility(Here, i, v), MutatorResult(Here, i))
    /\ Called("set_fragment_visibility", i, {})
    /\ UNCHANGED <<next_id, current_fragment>>
    /\ UNCHANGED canvasVars

set_fragment_position(i, p) ==
    /\ Apply(SetPosition(Here, i, p[1], p[2]), MutatorResult(Here, i))
    /\ Called("set_fragment_position", i, {})
    /\ UNCHANGED <<next_id, current_fragment>>
    /\ UNCHANGED canvasVars

translate_fragment(i, d) ==
    /\ \A k \in 1..Len(fragments) : InRange(Translate(Here, i, d[1], d[2]).fragments[k])
    /\ Apply(Translate(Here, i, d[1], d[2]), MutatorResult(Here, i))
    /\ Called("translate_fragment", i, {})
    /\ UNCHANGED <<next_id, current_fragment>>
    /\ UNCHANGED canvasVars

rotate_fragment(i, angle) ==
    /\ Apply(RotateFragment(Here, i, angle), MutatorResult(Here, i))
    /\ Called("rotate_fragment", i, {})
    /\ UNCHANGED <<next_id, current_fragment>>
    /\ UNCHANGED canvasVars

set_fragment_rotation(i, angle) ==
    /\ Apply(SetRotation(Here, i, angle), MutatorResult(Here, i))
    /\ Called("set_fragment_rotation", i, {})
    /\ UNCHANGED <<next_id, current_fragment>>
    /\ UNCHANGED canvasVars

flip_fragment(i, horizontal) ==
    /\ Apply(FlipFragment(Here, i, horizontal), MutatorResult(Here, i))
    /\ Called("flip_fragment", i, {})
    /\ UNCHANGED <<next_id, current_fragment>>
    /\ UNCHANGED canvasVars

set_fragment_transform(i, rotation, translation, flip_h, flip_v) ==
    /\ Apply(SetTransform(Here, i, rotation, translation, flip_h, flip_v),
             MutatorResult(Here, i))
    /\ Called("set_fragment_transform", i, Given(rotation, translation, flip_h, flip_v))
    /\ UNCHANGED <<next_id, current_fragment>>
    /\ UNCHANGED canvasVars

reset_fragment_transform(i) ==
    /\ Apply(ResetTransform(Here, i), MutatorResult(Here, i))
    /\ Called("reset_fragment_transform", i, {})
    /\ UNCHANGED <<next_id, current_fragment>>
    /\ UNCHANGED canvasVars

reset_all_transforms ==
    /\ Apply(ResetAllTransforms(Here), RetNone)
    /\ Called("reset_all_transforms", None, {})
    /\ UNCHANGED <<next_id, current_fragment>>
    /\ UNCHANGED canvasVars

\* every object of the store is replaced by a new one
import_metadata(metadata) ==
    /\ Apply(ImportMetadata(Here, metadata), RetNone)
    /\ Recorded("import_metadata", metadata.selected_fragment_id, {}, <<metadata>>)
    /\ canvas' = Detach(canvas, fragments, Keys(fragments))
    /\ UNCHANGED <<next_id, current_fragment, view, tool>>

get_composite_bounds ==
    /\ ret' = [kind |-> "bounds", b |-> FALSE, id |-> None,
               bounds |-> CompositeBounds(fragments)]
    /\ signals' = <<>>
    /\ Called("get_composite_bounds", None, {})
    /\ UNCHANGED <<fragments, selected_fragment_id, next_id, current_fragment>>
    /\ UNCHANGED canvasVars

\* Fragment.get_transformed_image(), as the render step calls it
get_transformed_image(i) ==
    /\ Contains(fragments, i)
    /\ fragments' = Update(fragments, i, recompute_cache(At(fragments, i)))
    /\ ret' = RetImage
    /\ signals' = <<>>
    /\ Called("get_transformed_image", i, {})
    /\ UNCHANGED <<selected_fragment_id, next_id, current_fragment>>
    /\ UNCHANGED canvasVars

on_opacity_changed(value) ==
    /\ current_fragment # None
    /\ fragments' = WriteOpacity(fragments, current_fragment, value)
    /\ signals' = <<transform_requested(current_fragment)>>
    /\ ret' = RetNone
    /\ Called("on_opacity_changed", current_fragment, {})
    /\ UNCHANGED <<selected_fragment_id, next_id, current_fragment>>
    /\ UNCHANGED canvasVars

----------------------------------------------------------------------------
(* Canvas operations.  self.fragments is the store's list of fragments: no *)
(* canvas handler changes the store.  A run is not followed past a handler *)
(* that left a zoom of 0 or a pan that is not a number.                    *)

ThisWidget == Widget(view, tool, canvas, fragments, RetNone, <<>>)

\* self.fragments
CanvasFragments == Shown(canvas, fragments)

SmallTerms(a) == Abs(a.n) <= MaxTerm /\ a.d <= MaxTerm

Explored(v) == SmallTerms(v.zoom) /\ SmallTerms(v.pan_x) /\ SmallTerms(v.pan_y)

\* a drag of the view is followed while the pan stays within MaxPan world units
Near(v) ==
    /\ Abs(v.pan_x.n) <= MaxPan * v.pan_x.d
    /\ Abs(v.pan_y.n) <= MaxPan * v.pan_y.d

CanvasCalled(op, arg) == Recorded(op, None, {}, arg)

CanvasApply(w) ==
    /\ view' = w.view
    /\ tool' = w.tool
    /\ canvas' = w.canvas
    /\ ret' = w.ret
    /\ signals' = w.signals
    /\ fragments' = w.fragments
    /\ UNCHANGED <<selected_fragment_id, next_id, current_fragment>>

wheelEvent(p, up) ==
    /\ Usable(view)
    /\ Explored(WheelZoom(ThisWidget, p, up).view)
    /\ CanvasApply(WheelZoom(ThisWidget, p, up))
    /\ CanvasCalled("wheelEvent", <<p, up>>)

zoom_to_fit ==
    /\ Usable(view)
    /\ \E w \in ZoomToFit(ThisWidget, CanvasFragments) : CanvasApply(w)
    /\ CanvasCalled("zoom_to_fit", <<>>)

zoom_to_100 ==
    /\ Usable(view)
    /\ CanvasApply(ZoomTo100(ThisWidget))
    /\ CanvasCalled("zoom_to_100", <<>>)

canvas_set_selected_fragment(i) ==
    /\ Usable(view)
    /\ CanvasApply(SetCanvasSelectedFragment(ThisWidget, i))
    /\ CanvasCalled("canvas.set_selected_fragment", <<i>>)

set_selection_tool_active(active) ==
    /\ Usable(view)
    /\ CanvasApply(SetSelectionToolActive(ThisWidget, active))
    /\ CanvasCalled("set_selection_tool_active", <<active>>)

mousePressEvent(button, pos) ==
    /\ Usable(view)
    /\ CanvasApply(MousePress(ThisWidget, CanvasFragments, button, pos))
    /\ CanvasCalled("mousePressEvent", <<button, pos>>)

mouseMoveEvent(pos) ==
    /\ Usable(view)
    /\ \E w \in MouseMove(ThisWidget, pos) :
          Explored(w.view) /\ Near(w.view) /\ CanvasApply(w)
    /\ CanvasCalled("mouseMoveEvent", <<pos>>)

mouseReleaseEvent ==
    /\ Usable(view)
    /\ \E w \in MouseRelease(ThisWidget, CanvasFragments) : CanvasApply(w)
    /\ CanvasCalled("mouseReleaseEvent", <<>>)

apply_transform_to_selection(transform_type) ==
    /\ Usable(view)
    /\ \E w \in ApplyTransformToSelection(ThisWidget, transform_type) : CanvasApply(w)
    /\ CanvasCalled("apply_transform_to_selection", <<transform_type>>)

update_fragments ==
    /\ CanvasApply(UpdateFragments(ThisWidget))
    /\ CanvasCalled("update_fragments", <<>>)

schedule_render(fast) ==
    /\ CanvasApply(ScheduleRender(ThisWidget, fast))
    /\ CanvasCalled("schedule_render", <<fast>>)

invalidate_fragment(i) ==
    /\ CanvasApply(InvalidateFragment(ThisWidget, i))
    /\ CanvasCalled("invalidate_fragment", <<i>>)

clear_cache ==
    /\ CanvasApply(ClearCache(ThisWidget))
    /\ CanvasCalled("clear_cache", <<>>)

\* a paint event of the window system, or the one update() asked for
paintEvent ==
    /\ CanvasApply(Painted(ThisWidget))
    /\ CanvasCalled("paintEvent", <<>>)

\* the paintEvent that the update() at the end of render_dirty_fragments
\* asked for, which is reached when the dirty set was not empty
paint_after_render ==
    /\ call.op = "render_dirty_fragments"
    /\ before.canvas.dirty_fragments # {}
    /\ paintEvent

\* renderer.render_fragment(fragment, zoom) on the store's object under i
render_fragment(i) ==
    /\ Contains(fragments, i)
    /\ CanvasApply(RenderFragment(ThisWidget, At(fragments, i), TRUE))
    /\ CanvasCalled("render_fragment", <<i, TRUE>>)

\* renderer.render_fragment(fragment, zoom) on an object the caller kept
\* after the store dropped it
render_dropped_fragment(i) ==
    /\ ~Contains(fragments, i)
    /\ CanvasApply(RenderFragment(ThisWidget, Fragment(i), FALSE))
    /\ CanvasCalled("render_fragment", <<i, FALSE>>)

\* ms of time pass with no timer late by more than a period
elapse(ms) ==
    /\ canvas.render_timer # 0 /\ canvas.fast_update_timer # 0
    /\ CanvasApply([ThisWidget EXCEPT
           !.canvas.render_timer = Left(@, ms),
           !.canvas.fast_update_timer = Left(@, ms)])
    /\ CanvasCalled("elapse", <<ms>>)

render_timer_timeout ==
    /\ canvas.render_timer = 0
    /\ CanvasApply(RenderTimeout(ThisWidget))
    /\ CanvasCalled("render_dirty_fragments", <<>>)

fast_update_timer_timeout ==
    /\ canvas.fast_update_timer = 0
    /\ CanvasApply(FastTimeout(ThisWidget))
    /\ CanvasCalled("update", <<>>)

----------------------------------------------------------------------------
(* Specifications *)

\* add, remove and select, from the empty store
NextStore ==
    \/ add_fragment_from_image
    \/ \E i \in InputIds : remove_fragment(i)
    \/ \E i \in {None} \cup InputIds : set_selected_fragment(i)

SpecStore == Init /\ [][NextStore]_vars

\* add, remove, select and import, from the empty store
Next ==
    \/ add_fragment_from_image
    \/ \E i \in InputIds : remove_fragment(i)
    \/ \E i \in {None} \cup InputIds : set_selected_fragment(i)
    \/ \E metadata \in MetaDocs : import_metadata(metadata)

Spec == Init /\ [][Next]_vars

\* A fragment that was turned, flipped, moved, hidden and then rendered
Transformed(f) ==
    [f EXCEPT !.rotation = 180, !.flip_horizontal = TRUE, !.x = 1, !.y = 2,
              !.visible = FALSE, !.cache_valid = TRUE]

\* The store as two adds leave it, the second fragment as created or as the
\* mutators and a render leave it, the panel showing the selected fragment.
InitTransform ==
    /\ \E f2 \in {Fragment(2), Transformed(Fragment(2))} :
          fragments = <<Select(Fragment(1)), f2>>
    /\ selected_fragment_id = 1
    /\ next_id = 3
    /\ current_fragment = 1
    /\ ret = RetNone
    /\ signals = <<>>
    /\ InitCanvas
    /\ call = [op |-> "init", id |-> None, given |-> {}, arg |-> <<>>]
    /\ before = [fragments |-> fragments, selected |-> selected_fragment_id,
                 view |-> view, tool |-> tool, canvas |-> canvas,
                 seen |-> Seen(fragments)]

\* the transform mutators on the panel's fragment or on an unknown id, the
\* render step and the opacity slider
NextTransform ==
    \/ \E i \in TransformTargets, v \in BOOLEAN : set_fragment_visibility(i, v)
    \/ \E i \in TransformTargets, p \in Positions : set_fragment_position(i, p)
    \/ \E i \in TransformTargets, d \in Deltas : translate_fragment(i, d)
    \/ \E i \in TransformTargets, angle \in RotateAngles : rotate_fragment(i, angle)
    \/ \E i \in TransformTargets, angle \in SetAngles : set_fragment_rotation(i, angle)
    \/ \E i \in TransformTargets, horizontal \in BOOLEAN : flip_fragment(i, horizontal)
    \/ \E i \in TransformTargets, rotation \in OptOf(TransformAngles),
          translation \in OptOf(Positions),
          flip_h \in OptOf(BOOLEAN), flip_v \in OptOf(BOOLEAN) :
            set_fragment_transform(i, rotation, translation, flip_h, flip_v)
    \/ \E i \in TransformTargets : reset_fragment_transform(i)
    \/ reset_all_transforms
    \/ \E i \in TransformTargets : get_transformed_image(i)
    \/ \E value \in SliderValues : on_opacity_changed(value)

SpecTransform == InitTransform /\ [][NextTransform]_vars

\* the numbers of S that are floats
Floats(S) == {v \in S : Round(v) = v}

\* The store as one add leaves it
InitRotation ==
    /\ fragments = <<Select(Fragment(1))>>
    /\ selected_fragment_id = 1
    /\ next_id = 2
    /\ current_fragment = 1
    /\ ret = RetNone
    /\ signals = <<>>
    /\ InitCanvas
    /\ call = [op |-> "init", id |-> None, given |-> {}, arg |-> <<>>]
    /\ before = [fragments |-> fragments, selected |-> selected_fragment_id,
                 view |-> view, tool |-> tool, canvas |-> canvas,
                 seen |-> Seen(fragments)]

\* the mutators that write a rotation, on the one fragment
NextRotation ==
    \/ \E angle \in Floats(TurnAngles) : rotate_fragment(1, angle)
    \/ \E angle \in Floats(TurnSetAngles) : set_fragment_rotation(1, angle)
    \/ \E angle \in Floats(TurnTransformAngles) :
          set_fragment_transform(1, Some(angle), Absent, Absent, Absent)
    \/ reset_fragment_transform(1)

SpecRotation == InitRotation /\ [][NextRotation]_vars

\* a fragment of the store, placed and shown or hidden
Placed(i, x, y, visible) == [Fragment(i) EXCEPT !.x = x, !.y = y, !.visible = visible]

\* stores the canvas shows in the viewport runs
ViewLayouts ==
    {<<Fragment(1)>>, <<Fragment(2)>>, <<Fragment(3)>>,
     <<Placed(2, 0, 0, FALSE), Placed(4, 9, 2, TRUE)>>}

ViewportSizes == {<<1000, 500>>, <<0, 500>>}
WheelPoints == {<<120, 60>>}

\* a canvas showing one of the layouts, before any event
InitViewport ==
    /\ fragments \in ViewLayouts
    /\ selected_fragment_id = None
    /\ next_id = MaxIds + 1
    /\ current_fragment = None
    /\ ret = RetNone
    /\ signals = <<>>
    /\ \E size \in ViewportSizes : view = NewView(size[1], size[2])
    /\ tool = NewTool
    /\ canvas = CanvasShowing(view, fragments)
    /\ call = [op |-> "init", id |-> None, given |-> {}, arg |-> <<>>]
    /\ before = [fragments |-> fragments, selected |-> selected_fragment_id,
                 view |-> view, tool |-> tool, canvas |-> canvas,
                 seen |-> Seen(fragments)]

\* the viewport operations
NextViewport ==
    \/ \E p \in WheelPoints, up \in BOOLEAN : wheelEvent(p, up)
    \/ zoom_to_fit
    \/ zoom_to_100

SpecViewport == InitViewport /\ [][NextViewport]_vars

\* stores the canvas shows in the selection runs: a 4 x 2 fragment at (0, 0)
\* and a 6 x 4 fragment at (4.5, 0), shown or hidden
SelectLayouts ==
    {<<Placed(2, 0, 0, TRUE), Placed(4, 9, 0, visible)>> : visible \in BOOLEAN}

SelectPoints == {<<0, 0>>, <<4, 2>>}
Buttons == {"left", "middle"}
TransformTypes == {"rotate_cw", "flip_horizontal"}

\* a canvas of 20 x 10 showing one of the layouts, before any event
InitSelect ==
    /\ fragments \in SelectLayouts
    /\ selected_fragment_id = None
    /\ next_id = MaxIds + 1
    /\ current_fragment = None
    /\ ret = RetNone
    /\ signals = <<>>
    /\ view = NewView(20, 10)
    /\ tool = NewTool
    /\ canvas = CanvasShowing(view, fragments)
    /\ call = [op |-> "init", id |-> None, given |-> {}, arg |-> <<>>]
    /\ before = [fragments |-> fragments, selected |-> selected_fragment_id,
                 view |-> view, tool |-> tool, canvas |-> canvas,
                 seen |-> Seen(fragments)]

\* the selection tool, the mouse and the transform of the selection
NextSelect ==
    \/ \E active \in BOOLEAN : set_selection_tool_active(active)
    \/ \E button \in Buttons, pos \in SelectPoints : mousePressEvent(button, pos)
    \/ \E pos \in SelectPoints : mouseMoveEvent(pos)
    \/ mouseReleaseEvent
    \/ \E i \in {None} \cup Keys(fragments) : canvas_set_selected_fragment(i)
    \/ \E transform_type \in TransformTypes : apply_transform_to_selection(transform_type)

SpecSelect == InitSelect /\ [][NextSelect]_vars

\* rectangle selections and clicks that start at the canvas's corner with the
\* left button, while fragments are removed from the store and the canvas is
\* given the list again
NextGroup ==
    \/ \E active \in BOOLEAN : set_selection_tool_active(active)
    \/ mousePressEvent("left", <<0, 0>>)
    \/ \E pos \in SelectPoints : mouseMoveEvent(pos)
    \/ mouseReleaseEvent
    \/ \E i \in Keys(fragments) : remove_fragment(i)
    \/ update_fragments

SpecGroup == InitSelect /\ [][NextGroup]_vars

\* stores of a 4 x 2 and a 6 x 4 fragment, both at (0, 0), added in either
\* order, each shown or hidden
PickLayouts ==
    {<<Placed(2, 0, 0, a), Placed(4, 0, 0, b)>> : a \in BOOLEAN, b \in BOOLEAN} \cup
    {<<Placed(4, 0, 0, a), Placed(2, 0, 0, b)>> : a \in BOOLEAN, b \in BOOLEAN}

\* inside both fragments, inside the larger one only, outside both
PickPoints == {<<0, 0>>, <<5, 3>>, <<10, 8>>}

InitPick ==
    /\ fragments \in PickLayouts
    /\ selected_fragment_id = None
    /\ next_id = MaxIds + 1
    /\ current_fragment = None
    /\ ret = RetNone
    /\ signals = <<>>
    /\ view = NewView(20, 10)
    /\ tool = NewTool
    /\ canvas = CanvasShowing(view, fragments)
    /\ call = [op |-> "init", id |-> None, given |-> {}, arg |-> <<>>]
    /\ before = [fragments |-> fragments, selected |-> selected_fragment_id,
                 view |-> view, tool |-> tool, canvas |-> canvas,
                 seen |-> Seen(fragments)]

\* clicks and drags with the selection tool off
NextPick ==
    \/ \E button \in Buttons, pos \in PickPoints : mousePressEvent(button, pos)
    \/ \E pos \in PickPoints : mouseMoveEvent(pos)
    \/ mouseReleaseEvent

SpecPick == InitPick /\ [][NextPick]_vars

\* a 4 x 2 fragment and a greyscale fragment, on a canvas that was given the
\* list once; id 3 is a fragment removed earlier
InitRender ==
    /\ fragments = <<Fragment(2), Fragment(1)>>
    /\ selected_fragment_id = None
    /\ next_id = MaxIds + 1
    /\ current_fragment = None
    /\ ret = RetNone
    /\ signals = <<>>
    /\ view = NewView(20, 10)
    /\ tool = NewTool
    /\ canvas = CanvasShowing(view, fragments)
    /\ call = [op |-> "init", id |-> None, given |-> {}, arg |-> <<>>]
    /\ before = [fragments |-> fragments, selected |-> selected_fragment_id,
                 view |-> view, tool |-> tool, canvas |-> canvas,
                 seen |-> Seen(fragments)]

\* the store changes, the canvas is told at some time, the render timer runs
NextRender ==
    \/ \E i \in Keys(fragments), v \in BOOLEAN : set_fragment_visibility(i, v)
    \/ update_fragments
    \/ \E i \in 1..MaxIds : invalidate_fragment(i)
    \/ paintEvent
    \/ \E i \in 1..MaxIds : render_dropped_fragment(i)
    \/ elapse(RenderInterval)
    \/ render_timer_timeout

SpecRender == InitRender /\ [][NextRender]_vars

\* fragments are removed while the renderer works on them: a result arrives
\* for an object of the store or for one the store has dropped
NextStale ==
    \/ \E i \in Keys(fragments) : remove_fragment(i)
    \/ update_fragments
    \/ \E i \in 1..MaxIds : render_fragment(i)
    \/ \E i \in 1..MaxIds : render_dropped_fragment(i)
    \/ elapse(RenderInterval)
    \/ render_timer_timeout

SpecStale == InitRender /\ [][NextStale]_vars

\* one 4 x 2 fragment on a canvas that was given the list once
InitUpdate ==
    /\ fragments = <<Fragment(2)>>
    /\ selected_fragment_id = None
    /\ next_id = MaxIds + 1
    /\ current_fragment = None
    /\ ret = RetNone
    /\ signals = <<>>
    /\ view = NewView(20, 10)
    /\ tool = NewTool
    /\ canvas = CanvasShowing(view, fragments)
    /\ call = [op |-> "init", id |-> None, given |-> {}, arg |-> <<>>]
    /\ before = [fragments |-> fragments, selected |-> selected_fragment_id,
                 view |-> view, tool |-> tool, canvas |-> canvas,
                 seen |-> Seen(fragments)]

\* the store's mutators change the fragment, the canvas is given the list at
\* some time, the render timer runs
NextUpdate ==
    \/ \E i \in Keys(fragments), v \in BOOLEAN : set_fragment_visibility(i, v)
    \/ \E i \in Keys(fragments), p \in Positions \cup {<<0, 0>>} :
           set_fragment_position(i, p)
    \/ \E i \in Keys(fragments) : rotate_fragment(i, 180)
    \/ \E i \in Keys(fragments) : flip_fragment(i, TRUE)
    \/ update_fragments
    \/ clear_cache
    \/ elapse(RenderInterval)
    \/ render_timer_timeout

SpecUpdate == InitUpdate /\ [][NextUpdate]_vars

\* presses and releases start and end drags and pans, render requests of both
\* kinds arrive at any time, and time passes in steps of 8 or 16 ms
NextTimer ==
    \/ \E button \in Buttons, pos \in {<<0, 0>>, <<10, 8>>} :
           mousePressEvent(button, pos)
    \/ mouseReleaseEvent
    \/ \E fast \in BOOLEAN : schedule_render(fast)
    \/ \E ms \in {8, 16} : elapse(ms)
    \/ render_timer_timeout
    \/ fast_update_timer_timeout

SpecTimer == InitUpdate /\ [][NextTimer]_vars

\* the fragment is turned and flipped in the store, the canvas is given the
\* list, the render timer runs and the window is painted, in any order
NextDraw ==
    \/ \E i \in Keys(fragments) : rotate_fragment(i, 180)
    \/ \E i \in Keys(fragments), horizontal \in BOOLEAN : flip_fragment(i, horizontal)
    \/ update_fragments
    \/ paintEvent
    \/ elapse(RenderInterval)
    \/ render_timer_timeout

SpecDraw == InitUpdate /\ [][NextDraw]_vars

\* the fragment is hidden and shown in the store, render results arrive, the
\* canvas is given the list, invalidates, paints and renders
NextHidden ==
    \/ \E i \in Keys(fragments), v \in BOOLEAN : set_fragment_visibility(i, v)
    \/ \E i \in Keys(fragments) : render_fragment(i)
    \/ update_fragments
    \/ \E i \in Keys(fragments) : invalidate_fragment(i)
    \/ paintEvent
    \/ elapse(RenderInterval)
    \/ render_timer_timeout

SpecHidden == InitUpdate /\ [][NextHidden]_vars

\* the same, with time that passes and a render timer that fires when due
SpecHiddenFair ==
    /\ SpecHidden
    /\ WF_vars(elapse(RenderInterval))
    /\ WF_vars(render_timer_timeout)

\* a 4 x 2 and a 6 x 4 fragment in the store
InitBounds ==
    /\ fragments = <<Fragment(2), Fragment(4)>>
    /\ selected_fragment_id = None
    /\ next_id = MaxIds + 1
    /\ current_fragment = None
    /\ ret = RetNone
    /\ signals = <<>>
    /\ InitCanvas
    /\ call = [op |-> "init", id |-> None, given |-> {}, arg |-> <<>>]
    /\ before = [fragments |-> fragments, selected |-> selected_fragment_id,
                 view |-> view, tool |-> tool, canvas |-> canvas,
                 seen |-> <<>>]

BoundsPositions == {<<0, 0>>, <<1, 2>>, <<-3, 1>>}

\* the fragments are hidden, shown, moved, turned by quarter turns and
\* removed, and the bounds are asked for
NextBounds ==
    \/ \E i \in Keys(fragments), v \in BOOLEAN : set_fragment_visibility(i, v)
    \/ \E i \in Keys(fragments), p \in BoundsPositions : set_fragment_position(i, p)
    \/ \E i \in Keys(fragments) : rotate_fragment(i, 90)
    \/ \E i \in Keys(fragments) : remove_fragment(i)
    \/ get_composite_bounds

SpecBounds == InitBounds /\ [][NextBounds]_vars

\* a 4 x 2 fragment and a greyscale fragment, each shown or hidden, at the
\* origin or moved, in either order
QuietLayouts ==
    {<<[Fragment(i) EXCEPT !.visible = a, !.x = x],
       [Fragment(3 - i) EXCEPT !.visible = b]>> :
        i \in {1, 2}, a \in BOOLEAN, b \in BOOLEAN, x \in {0, PositionSteps}}

\* the canvas was given one of the layouts; from then on there is no input
InitQuiet ==
    /\ fragments \in QuietLayouts
    /\ selected_fragment_id = None
    /\ next_id = MaxIds + 1
    /\ current_fragment = None
    /\ ret = RetNone
    /\ signals = <<>>
    /\ view = NewView(20, 10)
    /\ tool = NewTool
    /\ canvas = CanvasShowing(view, fragments)
    /\ call = [op |-> "init", id |-> None, given |-> {}, arg |-> <<>>]
    /\ before = [fragments |-> fragments, selected |-> selected_fragment_id,
                 view |-> view, tool |-> tool, canvas |-> canvas,
                 seen |-> Seen(fragments)]

\* time passes, the render timer fires, and the paint it asks for is done
NextQuiet ==
    \/ \E ms \in {8, 16} : elapse(ms)
    \/ render_timer_timeout
    \/ paint_after_render

\* the event loop never stops while a timer runs or a paint is asked for
SpecQuiet == InitQuiet /\ [][NextQuiet]_vars /\ WF_vars(NextQuiet)

\* import_metadata(export_metadata()) on one store
import_exported == import_metadata(ExportMetadata(Here))

\* add, remove and select, the mutators on the second fragment, and the
\* round trip through the metadata
NextRoundTrip ==
    \/ add_fragment_from_image
    \/ \E i \in InputIds : remove_fragment(i)
    \/ \E i \in {None} \cup InputIds : set_selected_fragment(i)
    \/ \E v \in BOOLEAN : set_fragment_visibility(2, v)
    \/ \E p \in Positions : set_fragment_position(2, p)
    \/ rotate_fragment(2, 180)
    \/ flip_fragment(2, TRUE)
    \/ \E value \in SliderValues : on_opacity_changed(value)
    \/ import_exported

SpecRoundTrip == InitTransform /\ [][NextRoundTrip]_vars

----------------------------------------------------------------------------
(* Claims about the transform mutators (SpecTransform)                     *)

WasKnown == Contains(before.fragments, call.id)

\* same fragments in the same order, each with its cache flag, rotation and flips
SameCacheAndOrientation(old, new) ==
    /\ Len(new) = Len(old)
    /\ \A k \in 1..Len(old) :
          /\ new[k].id = old[k].id
          /\ new[k].cache_valid = old[k].cache_valid
          /\ new[k].rotation = old[k].rotation
          /\ new[k].flip_horizontal = old[k].flip_horizontal
          /\ new[k].flip_vertical = old[k].flip_vertical

PositionVisibilityOpacityWrite ==
    \/ call.op \in {"set_fragment_position", "translate_fragment",
                    "set_fragment_visibility", "on_opacity_changed"}
    \/ call.op = "set_fragment_transform" /\ call.given \subseteq {"translation"}

\* C1: set_position, translate, set_visibility, an opacity write and a
\* set_transform carrying at most a position leave every fragment's
\* cache_valid, rotation and flip flags as they were.
C1_PositionWritesKeepCache ==
    PositionVisibilityOpacityWrite =>
        SameCacheAndOrientation(before.fragments, fragments)

\* set_transform with only a position moved a turned, flipped fragment whose
\* cache was valid
C1_Witness ==
    /\ call.op = "set_fragment_transform" /\ call.given = {"translation"}
    /\ WasKnown
    /\ At(before.fragments, call.id).cache_valid
    /\ At(before.fragments, call.id).rotation = 180
    /\ At(before.fragments, call.id).flip_vertical
    /\ At(before.fragments, call.id).x # At(fragments, call.id).x

RotationOrFlipWrite ==
    call.op \in {"rotate_fragment", "set_fragment_rotation", "flip_fragment"}

\* C2: after set_rotation, rotate_by or toggle_flip on a fragment of the store
\* that fragment's cache_valid is false, whatever it was before and whether or
\* not the rotation changed.
C2_RotationFlipInvalidate ==
    (RotationOrFlipWrite /\ WasKnown) => ~At(fragments, call.id).cache_valid

\* set_rotation wrote the rotation the fragment already had, on a valid cache
C2_Witness ==
    /\ call.op = "set_fragment_rotation"
    /\ WasKnown
    /\ At(before.fragments, call.id).cache_valid
    /\ At(before.fragments, call.id).rotation = 180
    /\ At(fragments, call.id).rotation = 180

\* C3: set_transform on a fragment of the store leaves its cache_valid false
\* when a rotation, flip_h or flip_v argument is given (whatever its value)
\* and leaves cache_valid as it was when none of them is given.
C3_SetTransformInvalidation ==
    (call.op = "set_fragment_transform" /\ WasKnown) =>
        At(fragments, call.id).cache_valid =
            IF call.given \cap {"rotation", "flip_horizontal", "flip_vertical"} # {}
            THEN FALSE
            ELSE At(before.fragments, call.id).cache_valid

\* set_transform was given only flip_vertical, with the value the fragment
\* already had, on a valid cache
C3_Witness ==
    /\ call.op = "set_fragment_transform" /\ call.given = {"flip_vertical"}
    /\ WasKnown
    /\ At(before.fragments, call.id).cache_valid
    /\ At(before.fragments, call.id).flip_vertical = At(fragments, call.id).flip_vertical

TransformMutators ==
    {"set_fragment_position", "translate_fragment", "set_fragment_rotation",
     "rotate_fragment", "flip_fragment", "set_fragment_transform",
     "reset_fragment_transform", "set_fragment_visibility"}

\* C9: a transform mutator called with an id that is not in the store changes
\* no fragment and no selection state and emits no signal.
C9_UnknownIdNoOp ==
    (call.op \in TransformMutators /\ ~WasKnown) =>
        /\ fragments = before.fragments
        /\ selected_fragment_id = before.selected
        /\ signals = <<>>

\* set_transform with every keyword given was called with an unknown id on a
\* store holding a valid cache
C9_Witness ==
    /\ call.op = "set_fragment_transform"
    /\ call.given = {"rotation", "translation", "flip_horizontal", "flip_vertical"}
    /\ ~WasKnown
    /\ \E k \in 1..Len(before.fragments) : before.fragments[k].cache_valid

----------------------------------------------------------------------------
(* Claims about rotations (SpecRotation)                                   *)

Before == Store(before.fragments, before.selected, <<>>)

\* C11 (as claimed): every fragment's rotation is at least 0 and less than 360
\* after any sequence of set_rotation, rotate_by, set_transform and reset
\* calls with any inputs.
C11_RotationInRange ==
    \A k \in 1..Len(fragments) :
        fragments[k].rotation >= 0 /\ fragments[k].rotation < 360

\* the distance of two angles around the circle
CircularDistance(a, b) ==
    LET d == (a - b) % 360
    IN  IF d <= 360 - d THEN d ELSE 360 - d

\* the rotation of fragment i after rotate_by(angle) on the store st
Rotated(st, i, angle) == At(RotateFragment(st, i, angle).fragments, i).rotation

\* the angles whose rotate_by leads from the store before the call to this one
Turned ==
    {angle \in Floats(TurnAngles) :
        Rotated(Before, call.id, angle) = At(fragments, call.id).rotation}

----------------------------------------------------------------------------
(* Claims about the viewport (SpecViewport)                                *)

\* C13 (as claimed): the zoom is within [min_zoom, max_zoom] after any
\* sequence of wheel zooms, zoom-to-fit, zoom-to-selection and reset.
C13_ZoomWithinLimits ==
    FracLeq(min_zoom, view.zoom) /\ FracLeq(view.zoom, max_zoom)

\* the wheel event of the last call multiplied the zoom without clamping it
WheelUnclamped ==
    /\ call.op = "wheelEvent"
    /\ view.zoom = FracMul(before.view.zoom,
                           IF call.arg[2] THEN Frac(6, 5) ELSE Frac(5, 6))

\* C14 (as claimed): after a wheel zoom at screen point p that does not hit
\* the zoom clamp, screen_to_world(p) is what it was before the call.
C14_WheelKeepsAnchor ==
    WheelUnclamped =>
        screen_to_world(view, call.arg[1]) = screen_to_world(before.view, call.arg[1])

\* the fragments zoom_to_fit looks at have bounds of positive width and height
PositiveContent ==
    /\ Len(VisibleOf(fragments)) > 0
    /\ LET b == ContentBounds(VisibleOf(fragments))
       IN  FracLess(b.min_x, b.max_x) /\ FracLess(b.min_y, b.max_y)

\* C15: zoom_to_fit on content of positive width and height leaves
\* zoom = min(width / content_width, height / content_height) * 0.9 and, in a
\* viewport of positive width and height, a pan under which the centre of the
\* content is at the centre of the viewport: (centre + pan) * zoom is half the
\* viewport's size.
C15_FitToContent ==
    (call.op = "zoom_to_fit" /\ PositiveContent) =>
        LET b == ContentBounds(VisibleOf(fragments))
            v == before.view
            centre_x == FracDiv(FracAdd(b.min_x, b.max_x), Whole(2))
            centre_y == FracDiv(FracAdd(b.min_y, b.max_y), Whole(2))
        IN  /\ view.zoom =
                  FracMul(FracMin(FracDiv(Whole(v.width), FracSub(b.max_x, b.min_x)),
                                  FracDiv(Whole(v.height), FracSub(b.max_y, b.min_y))),
                          Frac(9, 10))
            /\ (v.width > 0 /\ v.height > 0) =>
                  /\ FracMul(FracAdd(centre_x, view.pan_x), view.zoom) = Frac(v.width, 2)
                  /\ FracMul(FracAdd(centre_y, view.pan_y), view.zoom) = Frac(v.height, 2)

\* zoom_to_fit on the one 200 x 100 fragment in the 1000 x 500 viewport, from
\* another zoom, left the zoom 4.5
C15_Witness ==
    /\ call.op = "zoom_to_fit"
    /\ fragments = <<Fragment(1)>>
    /\ before.view.width = 1000 /\ before.view.height = 500
    /\ before.view.zoom # Frac(9, 2)
    /\ view.zoom = Frac(9, 2)

\* C16 (as claimed): zoom_to_fit on content bounds without positive width or
\* height, or in a viewport whose width or height is zero, leaves zoom and
\* pan as they were and raises nothing.
C16_DegenerateIsNoOp ==
    (call.op = "zoom_to_fit"
        /\ Len(VisibleOf(fragments)) > 0
        /\ (~PositiveContent \/ before.view.width = 0 \/ before.view.height = 0)) =>
        view = before.view /\ ret # RetRaise

\* a mouse release that ended a rectangle selection
SelectionEnded ==
    call.op = "mouseReleaseEvent" /\ before.tool.is_active /\ before.tool.is_selecting

\* C17 (as claimed): ending a rectangle selection leaves as the group selection
\* exactly the ids of the visible fragments whose box meets the rectangle
\* between anchor and cursor, the same set for the anchor and the cursor
\* swapped; the set replaces the earlier group selection and selecting is off.
C17_SelectionIndependentOfDirection ==
    SelectionEnded =>
        /\ canvas.group_selected_fragments =
               SelectedBy(before.tool.selection_start, before.tool.selection_end,
                          fragments)
        /\ SelectedBy(before.tool.selection_start, before.tool.selection_end, fragments)
               = SelectedBy(before.tool.selection_end, before.tool.selection_start,
                            fragments)
        /\ tool.selected_fragment_ids = canvas.group_selected_fragments
        /\ ~tool.is_selecting

ZeroArea(t) ==
    \/ t.selection_start[1] = t.selection_end[1]
    \/ t.selection_start[2] = t.selection_end[2]

\* C18 (as claimed): a rectangle selection whose anchor and cursor agree in x
\* or in y (zero area) ends with an empty match set, whatever the layout.
C18_ZeroAreaSelectsNothing ==
    (SelectionEnded /\ ZeroArea(before.tool)) =>
        canvas.group_selected_fragments = {}

\* a left press at a point inside a visible member of the group selection
PressedInsideMember ==
    /\ call.op = "mousePressEvent"
    /\ call.arg[1] = "left"
    /\ LET world_pos == screen_to_world(before.view, call.arg[2])
       IN  \E k \in Hits(fragments, world_pos[1], world_pos[2]) :
              fragments[k].id \in before.canvas.group_selected_fragments

\* the position of fragment i plus the offset is exactly the point
ExactOffset(i, offset, point) ==
    /\ FracAdd(Frac(At(fragments, i).x, PositionSteps), Whole(offset[1])) = Whole(point[1])
    /\ FracAdd(Frac(At(fragments, i).y, PositionSteps), Whole(offset[2])) = Whole(point[2])

\* C19 (as claimed): a press inside a member of the group starts a group drag
\* that captures for every member the exact offset from its position to the
\* press point, and every move of a group drag requests for every member the
\* position cursor minus its offset, so all members move by the cursor's
\* displacement.
C19_GroupDragIsRigid ==
    /\ PressedInsideMember =>
          /\ canvas.is_group_dragging
          /\ \A i \in before.canvas.group_selected_fragments \cap Keys(fragments) :
                /\ i \in DOMAIN canvas.group_drag_offsets
                /\ ExactOffset(i, canvas.group_drag_offsets[i], canvas.group_drag_start)
    /\ (call.op = "mouseMoveEvent" /\ before.canvas.is_group_dragging
           /\ ~(before.tool.is_active /\ before.tool.is_selecting)) =>
          LET world_pos == screen_to_world(before.view, call.arg[1])
          IN  {signals[k] : k \in 1..Len(signals)} =
                  {fragment_moved(i,
                       world_pos[1] - before.canvas.group_drag_offsets[i][1],
                       world_pos[2] - before.canvas.group_drag_offsets[i][2]) :
                     i \in before.canvas.group_selected_fragments}

\* a rotation of the selection while the selection has several members
GroupRotated ==
    /\ call.op = "apply_transform_to_selection"
    /\ call.arg[1] \in {"rotate_cw", "rotate_ccw"}
    /\ Cardinality(get_selected_fragments(before.canvas)) > 1

\* C20: rotating a selection of several members emits one rotation request per
\* member, each member once, and no move request; the store's positions are
\* as before, and rotate_fragment, which serves a rotation request, leaves
\* the position of the fragment it turns alone.
C20_GroupRotationKeepsPositions ==
    GroupRotated =>
        LET members == get_selected_fragments(before.canvas)
        IN  /\ Len(signals) = Cardinality(members)
            /\ {signals[k] : k \in 1..Len(signals)} =
                   {canvas_fragment_selected(<<"group", call.arg[1], i>>) : i \in members}
            /\ fragments = before.fragments
            /\ \A i \in members \cap Keys(fragments), angle \in {-90, 90} :
                   LET f == At(RotateFragment(Here, i, angle).fragments, i)
                   IN  f.x = At(fragments, i).x /\ f.y = At(fragments, i).y

\* a rotation of a group of two members, one of them at a fractional position
C20_Witness ==
    /\ GroupRotated
    /\ get_selected_fragments(before.canvas) = {2, 4}
    /\ Len(signals) = 2

\* group set when it is not empty, else the primary selection alone, else nothing
CurrentSelection(c) ==
    IF c.group_selected_fragments # {} THEN c.group_selected_fragments
    ELSE IF c.selected_fragment_id # None THEN {c.selected_fragment_id}
    ELSE {}

\* C21: the current selection is the group set when that is not empty, else
\* the primary selection alone, else empty, and a transform of the selection
\* addresses exactly its members; a change of the primary selection leaves
\* the group set as it was.
C21_CurrentSelection ==
    /\ get_selected_fragments(canvas) = CurrentSelection(canvas)
    /\ call.op = "apply_transform_to_selection" =>
          {signals[k].arg : k \in 1..Len(signals)} =
              IF Cardinality(CurrentSelection(before.canvas)) = 1
              THEN CurrentSelection(before.canvas)
              ELSE IF call.arg[1] \in {"rotate_cw", "rotate_ccw"}
              THEN {<<"group", call.arg[1], i>> : i \in CurrentSelection(before.canvas)}
              ELSE {}
    /\ canvas.selected_fragment_id # before.canvas.selected_fragment_id =>
          /\ canvas.group_selected_fragments = before.canvas.group_selected_fragments
          /\ tool.selected_fragment_ids = before.tool.selected_fragment_ids

\* a left press that reached get_fragment_at_position
Picked ==
    /\ call.op = "mousePressEvent"
    /\ call.arg[1] = "left"
    /\ ~before.tool.is_active

\* the indices of the canvas's list, as the press found it, whose fragment is
\* visible and contains the world point of the press
PickHits ==
    LET frs == Shown(before.canvas, before.fragments)
        world_pos == screen_to_world(before.view, call.arg[2])
    IN  {k \in 1..Len(frs) :
            frs[k].visible /\ contains_point(frs[k], world_pos[1], world_pos[2])}

\* C22: a press picks the fragment latest in the list among the visible
\* fragments that contain the point, and none when there is none: of two
\* overlapping visible fragments the one added later.
C22_TopmostAt ==
    Picked =>
        LET frs == Shown(before.canvas, before.fragments)
        IN  IF PickHits = {}
            THEN /\ signals = <<>>
                 /\ canvas.dragged_fragment_id = before.canvas.dragged_fragment_id
                 /\ canvas.is_panning
            ELSE \E k \in PickHits :
                    /\ \A j \in PickHits : j <= k
                    /\ signals = <<canvas_fragment_selected(frs[k].id)>>
                    /\ canvas.is_dragging_fragment
                    /\ canvas.dragged_fragment_id = frs[k].id

\* a press inside two overlapping visible fragments picks the later one
C22_Witness ==
    /\ Picked
    /\ PickHits = {1, 2}
    /\ canvas.dragged_fragment_id = fragments[2].id
    /\ signals = <<canvas_fragment_selected(fragments[2].id)>>

\* the primary selection moves to a member of a group of two, and the
\* current selection is still the group
C21_Witness ==
    /\ call.op = "canvas.set_selected_fragment"
    /\ before.canvas.selected_fragment_id # 2
    /\ canvas.selected_fragment_id = 2
    /\ canvas.group_selected_fragments = {2, 4}
    /\ get_selected_fragments(canvas) = {2, 4}

----------------------------------------------------------------------------
(* Claims about the store (Spec)                                           *)

SelectedFlags(frs) == {k \in 1..Len(frs) : frs[k].selected}

\* C4: at most one fragment has its selected flag set.
C4_AtMostOneSelectedFlag == Cardinality(SelectedFlags(fragments)) <= 1

\* select moved the flag from one fragment of a two-fragment store to the other
C4_Witness ==
    /\ call.op = "set_selected_fragment"
    /\ Len(before.fragments) = 2
    /\ before.fragments[1].selected
    /\ Len(fragments) = 2
    /\ fragments[2].selected

\* C5 (as claimed, SpecStore): after add, remove and select operations a
\* fragment's selected flag is true exactly when its id is the store's selected
\* fragment id.
C5_FlagMatchesPointer ==
    \A k \in 1..Len(fragments) :
        fragments[k].selected <=> (fragments[k].id = selected_fragment_id)

\* C6 (as claimed, SpecStore): select with an id that is not in the store
\* leaves the selection pointer and every selected flag as they were.
C6_SelectUnknownNoOp ==
    (call.op = "set_selected_fragment" /\ call.id # None /\ ~WasKnown) =>
        /\ selected_fragment_id = before.selected
        /\ fragments = before.fragments

\* C7: remove with an absent id returns false and changes nothing; with a
\* present id it returns true, the fragment is gone and the others stay in
\* order; if it was the selection, the selection is a remaining fragment, or
\* None when none remains; otherwise the selection is unchanged.
C7_Remove ==
    call.op = "remove_fragment" =>
        IF ~WasKnown
        THEN /\ ret = RetBool(FALSE)
             /\ fragments = before.fragments
             /\ selected_fragment_id = before.selected
             /\ signals = <<>>
        ELSE /\ ret = RetBool(TRUE)
             /\ ~Contains(fragments, call.id)
             /\ fragments = SelectSeq(before.fragments, LAMBDA f : f.id # call.id)
             /\ IF before.selected = call.id
                THEN IF Len(fragments) = 0
                     THEN selected_fragment_id = None
                     ELSE Contains(fragments, selected_fragment_id)
                ELSE selected_fragment_id = before.selected

\* remove deleted the selected fragment of a two-fragment store
C7_Witness ==
    /\ call.op = "remove_fragment"
    /\ Len(before.fragments) = 2
    /\ before.selected = call.id
    /\ WasKnown
    /\ Len(fragments) = 1
    /\ selected_fragment_id = fragments[1].id

\* C8: add returns the new id and selects the new fragment exactly when the
\* store was empty; when it was not, the selection and every existing fragment
\* are as before and the new fragment is appended.
C8_AddAutoSelect ==
    call.op = "add_fragment_from_image" =>
        /\ ret = RetId(call.id)
        /\ Len(fragments) = Len(before.fragments) + 1
        /\ fragments[Len(fragments)].id = call.id
        /\ IF Len(before.fragments) = 0
           THEN /\ selected_fragment_id = call.id
                /\ fragments[1].selected
           ELSE /\ selected_fragment_id = before.selected
                /\ selected_fragment_id # call.id
                /\ SubSeq(fragments, 1, Len(before.fragments)) = before.fragments

\* add on a store that a remove had emptied, leaving a stale selection behind
C8_Witness ==
    /\ call.op = "add_fragment_from_image"
    /\ Len(before.fragments) = 0
    /\ before.selected # None
    /\ selected_fragment_id = call.id

\* C10 (as claimed): for every operation taking an id, the value returned for
\* an id in the store differs from the value returned for an id not in it.
C10_FailureIndicator ==
    \A i \in Keys(fragments), j \in InputIds \ Keys(fragments) :
        /\ RemoveFragmentResult(Here, i) # RemoveFragmentResult(Here, j)
        /\ MutatorResult(Here, i) # MutatorResult(Here, j)

-----------------------------------------------------------------------------
(* The render pass *)

\* the Fragment objects of the canvas's list in the state the call was made in
ShownBefore == Shown(before.canvas, before.fragments)

HasPixmap(c, i) == i \in DOMAIN c.fragment_pixmaps

\* the call left the cache entry of i as it was
SamePixmap(i) ==
    /\ HasPixmap(canvas, i) = HasPixmap(before.canvas, i)
    /\ HasPixmap(canvas, i) =>
           canvas.fragment_pixmaps[i] = before.canvas.fragment_pixmaps[i]

\* a render pass that started with a non-empty dirty set has run
RenderedDirty ==
    /\ call.op = "render_dirty_fragments"
    /\ before.canvas.dirty_fragments # {}

\* the dirty fragments the pass looks at: in the list and visible
Renderable(i) == Contains(ShownBefore, i) /\ At(ShownBefore, i).visible

\* C23 as stated: after a render pass that started with a non-empty dirty
\* set the dirty set is empty, every fragment that was dirty, is in the list
\* and is visible has a cached bitmap, and a dirty fragment that is invisible
\* or absent got none.
C23_RenderDirtyAsClaimed ==
    RenderedDirty =>
        /\ canvas.dirty_fragments = {}
        /\ \A i \in before.canvas.dirty_fragments :
               IF Renderable(i) THEN HasPixmap(canvas, i) ELSE SamePixmap(i)

\* C23: after a render pass that started with a non-empty dirty set the
\* dirty set is empty; every fragment that was dirty, is in the list, is
\* visible and whose image numpy_to_pixmap can convert has the bitmap of its
\* present transform in the cache; every other dirty id has the cache entry
\* it had, or none.
C23_RenderDirty ==
    RenderedDirty =>
        /\ canvas.dirty_fragments = {}
        /\ \A i \in before.canvas.dirty_fragments :
               IF Renderable(i) /\ Derivable(At(ShownBefore, i))
               THEN /\ HasPixmap(canvas, i)
                    /\ canvas.fragment_pixmaps[i] = Pixmap(At(ShownBefore, i))
               ELSE SamePixmap(i)

\* one pass gives a bitmap to fragment 2 and none to a dirty id that is
\* hidden or not in the list
C23_Witness ==
    /\ RenderedDirty
    /\ 2 \in before.canvas.dirty_fragments
    /\ ~HasPixmap(before.canvas, 2)
    /\ HasPixmap(canvas, 2)
    /\ \E i \in before.canvas.dirty_fragments :
           ~Renderable(i) /\ ~HasPixmap(canvas, i)

\* C24: after a render pass, a dirty, listed, visible fragment whose image
\* numpy_to_pixmap cannot convert is still in the dirty set and has no cached
\* bitmap, and the cached bitmap of every fragment that was not dirty is the
\* one it had.
C24_FailedStaysDirty ==
    RenderedDirty =>
        \A i \in before.canvas.dirty_fragments :
            (Renderable(i) /\ ~Derivable(At(ShownBefore, i))) =>
                /\ i \in canvas.dirty_fragments
                /\ ~HasPixmap(canvas, i)
                /\ \A j \in (DOMAIN canvas.fragment_pixmaps
                             \cup DOMAIN before.canvas.fragment_pixmaps)
                            \ before.canvas.dirty_fragments : SamePixmap(j)

-----------------------------------------------------------------------------
(* Render results *)

\* C27: in every reachable state the ids that hold a cached bitmap are ids of
\* the canvas's fragment list: a render result for an id that is no longer in
\* the list is ignored.
C27_PixmapsAreListed ==
    DOMAIN canvas.fragment_pixmaps \subseteq Keys(Shown(canvas, fragments))

-----------------------------------------------------------------------------
(* Change detection *)

\* update_fragments has run
Updated == call.op = "update_fragments"

\* rotation, a flip flag or visibility of f differ from what the canvas saw
\* at the update before
DiffersFromSeen(f) ==
    LET o == At(before.seen, f.id)
    IN  \/ 100 * Abs(o.rotation - f.rotation) > 1
        \/ o.flip_horizontal # f.flip_horizontal
        \/ o.flip_vertical # f.flip_vertical
        \/ o.visible # f.visible

\* only the position of f differs from what the canvas saw
MovedOnly(f) ==
    LET o == At(before.seen, f.id)
    IN  ~DiffersFromSeen(f) /\ (o.x # f.x \/ o.y # f.y)

\* C26: after update_fragments, a fragment whose rotation, flip flags or
\* visibility differ from what the canvas last saw has no cached bitmap and
\* is in the dirty set; a fragment of which only the position changed has
\* the cached bitmap it had and was not added to the dirty set.
C26_ChangeDetection ==
    Updated =>
        \A k \in 1..Len(fragments) :
            LET f == fragments[k]
            IN  Contains(before.seen, f.id) =>
                    /\ DiffersFromSeen(f) =>
                           /\ ~HasPixmap(canvas, f.id)
                           /\ f.id \in canvas.dirty_fragments
                    /\ MovedOnly(f) =>
                           /\ SamePixmap(f.id)
                           /\ f.id \in canvas.dirty_fragments =>
                                  f.id \in before.canvas.dirty_fragments

-----------------------------------------------------------------------------
(* The timers *)

\* schedule_render has run
Scheduled == call.op = "schedule_render"

\* the calls that let a timer run down or fire
TimerSteps == {"init", "elapse", "render_dirty_fragments", "update"}

\* C25: no call restarts or postpones a timer that is pending: after every
\* call other than the passing of time and the timeouts a pending timer has
\* the time left it had.  schedule_render starts the timer of its kind at
\* its full interval only if that timer was not pending, and it takes the
\* fast timer only for a fast request while a fragment drag or a pan is in
\* progress.  Both timers are one-shot: after its timeout a timer is not
\* pending.
C25_Debounce ==
    LET b == before.canvas
        interacting == b.is_dragging_fragment \/ b.is_panning
    IN  /\ call.op \notin TimerSteps =>
               /\ b.render_timer # Inactive => canvas.render_timer = b.render_timer
               /\ b.fast_update_timer # Inactive =>
                      canvas.fast_update_timer = b.fast_update_timer
        /\ Scheduled =>
               /\ canvas.fast_update_timer # b.fast_update_timer =>
                      /\ call.arg[1] /\ interacting
                      /\ canvas.fast_update_timer = FastInterval
               /\ canvas.render_timer # b.render_timer =>
                      /\ ~(call.arg[1] /\ interacting)
                      /\ canvas.render_timer = RenderInterval
               /\ IF call.arg[1] /\ interacting
                  THEN canvas.fast_update_timer # Inactive
                  ELSE canvas.render_timer # Inactive
        /\ call.op = "render_dirty_fragments" => canvas.render_timer = Inactive
        /\ call.op = "update" => canvas.fast_update_timer = Inactive

\* a fast request during a pan, 8 ms after the one that started the fast
\* timer, leaves the 8 ms that were left
C25_Witness ==
    /\ Scheduled
    /\ call.arg[1]
    /\ before.canvas.is_panning
    /\ before.canvas.fast_update_timer = 8
    /\ canvas.fast_update_timer = 8

-----------------------------------------------------------------------------
(* Metadata *)

\* import_metadata has been given the export of the store it was called on
RoundTripped ==
    /\ call.op = "import_metadata"
    /\ call.arg[1] = ExportMetadata(Store(before.fragments, before.selected, <<>>))

\* C28: import_metadata(export_metadata()) leaves the store with the same
\* fragment ids in the same order, the same position, rotation, flips,
\* visibility and opacity of each, and the same primary selection.
C28_RoundTrip ==
    RoundTripped =>
        /\ Len(fragments) = Len(before.fragments)
        /\ \A k \in 1..Len(fragments) :
               /\ fragments[k].id = before.fragments[k].id
               /\ fragments[k].x = before.fragments[k].x
               /\ fragments[k].y = before.fragments[k].y
               /\ fragments[k].rotation = before.fragments[k].rotation
               /\ fragments[k].flip_horizontal = before.fragments[k].flip_horizontal
               /\ fragments[k].flip_vertical = before.fragments[k].flip_vertical
               /\ fragments[k].visible = before.fragments[k].visible
               /\ fragments[k].opacity = before.fragments[k].opacity
        /\ selected_fragment_id = before.selected

\* the round trip of a store of two or more fragments whose selected
\* fragment is turned, flipped, moved and hidden
C28_Witness ==
    /\ RoundTripped
    /\ Len(fragments) >= 2
    /\ selected_fragment_id = 2
    /\ \E k \in 1..Len(fragments) :
           /\ fragments[k].id = 2
           /\ fragments[k].rotation = 180
           /\ fragments[k].flip_horizontal
           /\ ~fragments[k].visible
           /\ fragments[k].x # 0
           /\ before.fragments[k].cache_valid

\* C29: after import_metadata the store holds the imported records and
\* nothing else, and if the document's selected_fragment_id is null or names
\* no imported fragment the primary selection is None.
C29_ImportUnsetsSelection ==
    call.op = "import_metadata" =>
        /\ Keys(fragments) =
               {call.arg[1].fragments[k].id : k \in 1..Len(call.arg[1].fragments)}
        /\ (call.id = None \/ ~Contains(fragments, call.id)) =>
               selected_fragment_id = None

-----------------------------------------------------------------------------
(* Composite bounds *)

BoundsAsked == call.op = "get_composite_bounds"

\* the bounding boxes of the visible fragments of the store
VisibleBoxes ==
    {get_bounding_box(fragments[k]) :
        k \in {j \in 1..Len(fragments) : fragments[j].visible}}

Right(b) == FracAdd(b.x, Whole(b.w))
Bottom(b) == FracAdd(b.y, Whole(b.h))

\* C30: get_composite_bounds returns (0, 0, 0, 0) when the store is empty or
\* no fragment is visible; otherwise the rectangle it returns contains the
\* transformed bounding box of every visible fragment and each of its four
\* sides is a side of such a box, so hidden fragments contribute nothing.
C30_CompositeBounds ==
    BoundsAsked =>
        LET r == ret.bounds
        IN  IF VisibleBoxes = {}
            THEN r = [min_x |-> Whole(0), min_y |-> Whole(0),
                      max_x |-> Whole(0), max_y |-> Whole(0)]
            ELSE /\ \A b \in VisibleBoxes :
                        /\ FracLeq(r.min_x, b.x) /\ FracLeq(Right(b), r.max_x)
                        /\ FracLeq(r.min_y, b.y) /\ FracLeq(Bottom(b), r.max_y)
                 /\ \E b \in VisibleBoxes : r.min_x = b.x
                 /\ \E b \in VisibleBoxes : r.min_y = b.y
                 /\ \E b \in VisibleBoxes : r.max_x = Right(b)
                 /\ \E b \in VisibleBoxes : r.max_y = Bottom(b)

\* the bounds of a store with a visible fragment turned by a quarter and a
\* hidden fragment that lies partly to the left of them
C30_Witness ==
    /\ BoundsAsked
    /\ \E k \in 1..Len(fragments) :
           fragments[k].visible /\ fragments[k].rotation = 90
    /\ \E k \in 1..Len(fragments) :
           /\ ~fragments[k].visible
           /\ FracLess(get_bounding_box(fragments[k]).x, ret.bounds.min_x)

-----------------------------------------------------------------------------
(* Notifications *)

\* the call changed a field of a fragment that the metadata lists, or the
\* fragments the store holds
Mutated == ExportMetadata(Here).fragments # ExportMetadata(Before).fragments

Emitted(signal) == \E k \in 1..Len(signals) : signals[k] = signal

\* C31: a call that changed the position, rotation, flips, visibility or
\* opacity of a fragment, or the set of fragments, has emitted
\* fragments_changed before it returned.
C31_MutationsNotify == Mutated => Emitted(fragments_changed)

-----------------------------------------------------------------------------
(* Reset *)

\* at the origin, not turned, not flipped, and to be derived again
IsReset(f) ==
    /\ f.x = 0 /\ f.y = 0 /\ f.rotation = 0
    /\ ~f.flip_horizontal /\ ~f.flip_vertical
    /\ ~f.cache_valid

\* the call left what a reset does not touch: which fragments there are, in
\* which order, their visibility, opacity and selected flag, and the pointer
ResetKept ==
    /\ Len(fragments) = Len(before.fragments)
    /\ \A k \in 1..Len(fragments) :
           /\ fragments[k].id = before.fragments[k].id
           /\ fragments[k].visible = before.fragments[k].visible
           /\ fragments[k].opacity = before.fragments[k].opacity
           /\ fragments[k].selected = before.fragments[k].selected
    /\ selected_fragment_id = before.selected

\* C32: reset_fragment_transform on a fragment of the store leaves it at
\* (0, 0) with rotation 0, both flips false and its cache invalid, and the
\* other fragments as they were; reset_all_transforms leaves every fragment
\* of the store so, hidden ones too; both leave the fragment set and the
\* primary selection unchanged.
C32_Reset ==
    /\ (call.op = "reset_fragment_transform" /\ WasKnown) =>
           /\ IsReset(At(fragments, call.id))
           /\ ResetKept
           /\ \A k \in 1..Len(fragments) :
                  fragments[k].id # call.id => fragments[k] = before.fragments[k]
    /\ call.op = "reset_all_transforms" =>
           /\ \A k \in 1..Len(fragments) : IsReset(fragments[k])
           /\ ResetKept

\* reset_all_transforms on a store with a hidden fragment that was turned,
\* flipped, moved and rendered
C32_Witness ==
    /\ call.op = "reset_all_transforms"
    /\ \E k \in 1..Len(fragments) :
           /\ ~fragments[k].visible
           /\ before.fragments[k].rotation = 180
           /\ before.fragments[k].flip_horizontal
           /\ before.fragments[k].x # 0
           /\ before.fragments[k].cache_valid
           /\ IsReset(fragments[k])

-----------------------------------------------------------------------------
(* What is drawn *)

\* a paintEvent has run
PaintedNow == call.op = "paintEvent"

\* C33: every bitmap a paintEvent draws shows the rotation and the flips its
\* fragment has at that time.
C33_DrawnIsCurrent ==
    PaintedNow =>
        \A i \in Drawn(ThisWidget) :
            canvas.fragment_pixmaps[i] = Pixmap(At(CanvasFragments, i))

-----------------------------------------------------------------------------
(* Hidden fragments *)

-----------------------------------------------------------------------------
(* The selection *)

\* C35: a call after which the store's selected fragment id is another than
\* before has emitted fragment_selected with the new id, or with None.
C35_SelectionChangeSignalled ==
    selected_fragment_id # before.selected =>
        Emitted(fragment_selected(selected_fragment_id))

\* C38: the store's selected fragment id is None or the id of a fragment of
\* the store.
C38_PointerNeverDangles ==
    selected_fragment_id = None \/ Contains(fragments, selected_fragment_id)

-----------------------------------------------------------------------------
(* Progress of the render pass *)

\* i is in the canvas's list and visible
RenderableNow(i) == Contains(CanvasFragments, i) /\ At(CanvasFragments, i).visible

\* i is dirty, listed, visible, its image can be converted, and it has no
\* bitmap yet
Waiting(i) ==
    /\ i \in canvas.dirty_fragments
    /\ RenderableNow(i)
    /\ Derivable(At(CanvasFragments, i))
    /\ ~HasPixmap(canvas, i)

\* C36: while a dirty, listed, visible fragment with a convertible image has
\* no bitmap the render timer is pending, and, timers firing when they are
\* due, such a fragment gets a bitmap unless it is hidden or leaves the list.
C36_DirtyGetsRendered ==
    /\ [](\A i \in 1..MaxIds : Waiting(i) => canvas.render_timer # Inactive)
    /\ \A i \in 1..MaxIds :
           Waiting(i) ~> (HasPixmap(canvas, i) \/ ~RenderableNow(i))

\* the render timer fired for fragment 2, which invalidate_fragment or a
\* paint had marked while it was listed and visible
C36_Witness ==
    /\ call.op = "render_dirty_fragments"
    /\ before.canvas.render_timer = 0
    /\ 2 \in before.canvas.dirty_fragments
    /\ Contains(ShownBefore, 2) /\ At(ShownBefore, 2).visible
    /\ ~HasPixmap(before.canvas, 2)
    /\ HasPixmap(canvas, 2)

-----------------------------------------------------------------------------
(* Quiescence *)

\* nothing is dirty and the render timer is not pending
Quiet == canvas.dirty_fragments = {} /\ canvas.render_timer = Inactive

\* C37: without input and without changes of the store the canvas reaches a
\* state with an empty dirty set and no pending render timer and stays in
\* such states, also when a visible fragment in the viewport has an image
\* that cannot be converted.
C37_Quiesces == <>[]Quiet

-----------------------------------------------------------------------------
(* The canvas's selection state *)

\* C39: every id of the canvas's group selection is the id of a fragment of
\* the canvas's list.
C39_GroupNamesListed ==
    canvas.group_selected_fragments \subseteq Keys(CanvasFragments)

\* the interaction modes that are on
Modes ==
    (IF canvas.is_panning THEN {"pan"} ELSE {}) \cup
    (IF canvas.is_dragging_fragment THEN {"drag"} ELSE {}) \cup
    (IF canvas.is_group_dragging THEN {"group drag"} ELSE {}) \cup
    (IF tool.is_selecting THEN {"select"} ELSE {})

\* C40: at most one of panning, fragment dragging, group dragging and
\* rectangle selecting is on, and rectangle selecting only while the
\* selection tool is active.
C40_OneMode ==
    /\ Cardinality(Modes) <= 1
    /\ tool.is_selecting => tool.is_active

====
